---- MODULE Spec2Model ----
(***************************************************************************)
(* A model of golf (github.com/gaal/golf): the generated line-mode program *)
(* (the text/template "program" of golf.go together with the prelude), the *)
(* flag surface (decluster, flag.Parse, main) and the driver (Prog.run).   *)
(* Strings are sequences of one-character strings, so that splitting,     *)
(* joining and renaming are computed and not assumed.                     *)
(***************************************************************************)
EXTENDS Integers, Sequences, FiniteSets, TLC

\* ------------------------------------------------------------------ bounds
\* Longest input file, in characters.
MaxLen == 2
\* Longest list of positional file arguments of the generated program.
MaxArgs == 2

\* ------------------------------------------------------------ text helpers
NL == "\n"
CR == "\r"
STAR == "*"
SP == " "
SLASH == "/"

SeqsUpTo(S, n) == UNION {[1..k -> S] : k \in 0..n}

Contains(s, c) == \E i \in 1..Len(s) : s[i] = c

\* strings.Index for a one-character needle, 1-based; 0 when absent.
IndexOf(s, c) ==
  IF Contains(s, c)
  THEN CHOOSE i \in 1..Len(s) : s[i] = c /\ \A j \in 1..(i-1) : s[j] # c
  ELSE 0

RECURSIVE ReplaceAll(_, _, _)
\* strings.ReplaceAll(s, old, new) for a one-character old.
ReplaceAll(s, old, new) ==
  IF s = <<>> THEN <<>>
  ELSE (IF Head(s) = old THEN new ELSE <<Head(s)>>) \o ReplaceAll(Tail(s), old, new)

\* strconv.Itoa on the line numbers the model reaches.
Itoa(n) == <<CASE n = 0 -> "0" [] n = 1 -> "1" [] n = 2 -> "2" [] n = 3 -> "3"
               [] n = 4 -> "4" [] n = 5 -> "5" [] OTHER -> "9">>

\* strings.ToUpper on the model's alphabet.
UpperChar(c) == IF c = "a" THEN "A" ELSE IF c = "b" THEN "B" ELSE c
ToUpper(s) == [i \in 1..Len(s) |-> UpperChar(s[i])]

\* ------------------------------------------------------------------ prelude
BackupNameNoStar(orig, ext) == orig \o ext
\* prelude.BackupName
BackupName(orig, ext) ==
  IF Contains(ext, STAR) THEN ReplaceAll(ext, STAR, orig) ELSE orig \o ext

\* bufio.ScanLines: dropCR
dropCR(d) == IF Len(d) > 0 /\ d[Len(d)] = CR THEN SubSeq(d, 1, Len(d) - 1) ELSE d

\* bufio.ScanLines over the rest of a file that fits the scanner's buffer:
\* the next token, whether there is one, and what is left after it.
ScanLines(data) ==
  LET i == IndexOf(data, NL) IN
  IF Len(data) = 0 THEN [ok |-> FALSE, token |-> <<>>, rest |-> <<>>]
  ELSE IF i > 0
       THEN [ok |-> TRUE, token |-> dropCR(SubSeq(data, 1, i - 1)),
             rest |-> SubSeq(data, i + 1, Len(data))]
       ELSE [ok |-> TRUE, token |-> dropCR(data), rest |-> <<>>]

\* unicode.IsSpace on the characters of the model.
IsSpace(c) == c \in {SP, NL, CR}

RECURSIVE FieldsFrom(_, _)
\* strings.Fields from the rest s of the input, cur being the field in progress.
FieldsFrom(s, cur) ==
  LET done == IF cur = <<>> THEN <<>> ELSE <<cur>> IN
  IF s = <<>> THEN done
  ELSE IF IsSpace(Head(s)) THEN done \o FieldsFrom(Tail(s), <<>>)
  ELSE FieldsFrom(Tail(s), Append(cur, Head(s)))
\* strings.Fields
stringsFields(s) == FieldsFrom(s, <<>>)

\* strings.Index, 1-based; 0 when absent.
IndexSub(s, sub) ==
  LET hits == {i \in 1..(Len(s) - Len(sub) + 1) : SubSeq(s, i, i + Len(sub) - 1) = sub} IN
  IF hits = {} THEN 0 ELSE CHOOSE i \in hits : \A j \in hits : i <= j

\* strings.Split with an empty separator: one element per character.
explode(s) == [k \in 1..Len(s) |-> <<s[k]>>]

RECURSIVE stringsSplit(_, _)
\* strings.Split(s, sep)
stringsSplit(s, sep) ==
  IF sep = <<>> THEN explode(s)
  ELSE LET i == IndexSub(s, sep) IN
       IF i = 0 THEN <<s>>
       ELSE <<SubSeq(s, 1, i - 1)>> \o stringsSplit(SubSeq(s, i + Len(sep), Len(s)), sep)

\* Characters that are not a literal in a regular expression.
MetaChars == {"(", ")", "[", "+", "*", "?", "|", ".", "^", "$", "\\"}
\* regexp.Compile on the expressions of the model: the empty expression, one
\* literal character c, and c+; of the others only the malformed "(" is used.
regexpCompile(pat) ==
  IF pat = <<>> THEN [ok |-> TRUE, kind |-> "empty", c |-> ""]
  ELSE IF Len(pat) = 1 /\ pat[1] \notin MetaChars
       THEN [ok |-> TRUE, kind |-> "lit", c |-> pat[1]]
  ELSE IF Len(pat) = 2 /\ pat[1] \notin MetaChars /\ pat[2] = "+"
       THEN [ok |-> TRUE, kind |-> "plus", c |-> pat[1]]
  ELSE [ok |-> FALSE, kind |-> "none", c |-> ""]

\* The last index of the run of c that starts at index b.
RunEnd(s, c, b) ==
  CHOOSE j \in b..Len(s) :
    /\ \A i \in b..j : s[i] = c
    /\ j = Len(s) \/ s[j + 1] # c

RECURSIVE matchesFrom(_, _, _)
\* regexp.FindAllStringIndex from offset pos: the matches as <<start, end>>
\* offsets, leftmost first and, for c+, longest.
matchesFrom(re, s, pos) ==
  IF re.kind = "empty" THEN [k \in 1..(Len(s) + 1 - pos) |-> <<pos + k - 1, pos + k - 1>>]
  ELSE LET starts == {i \in (pos + 1)..Len(s) : s[i] = re.c} IN
       IF starts = {} THEN <<>>
       ELSE LET b == CHOOSE i \in starts : \A j \in starts : i <= j
                e == IF re.kind = "lit" THEN b ELSE RunEnd(s, re.c, b)
            IN <<<<b - 1, e>>>> \o matchesFrom(re, s, e)

RECURSIVE splitLoop(_, _, _, _, _)
\* The loop of regexp.Split over the matches, and the append after it.
splitLoop(s, ms, beg, end, acc) ==
  IF ms = <<>>
  THEN IF end # Len(s) THEN Append(acc, SubSeq(s, beg + 1, Len(s))) ELSE acc
  ELSE LET m == Head(ms) IN
       splitLoop(s, Tail(ms), m[2], m[1],
                 IF m[2] # 0 THEN Append(acc, SubSeq(s, beg + 1, m[1])) ELSE acc)

\* regexp.Split(s, -1)
regexpSplit(re, s) ==
  IF re.kind # "empty" /\ s = <<>> THEN << <<>> >>
  ELSE splitLoop(s, matchesFrom(re, s, 0), 0, 0, <<>>)

\* GSplit with every separator that begins and ends with '/', the lone "/"
\* included, taken as a regular expression.
GSplitLoneSlashIsRegexp(sep, input) ==
  IF sep = <<SP>> THEN [died |-> FALSE, ret |-> stringsFields(input)]
  ELSE IF Len(sep) >= 1 /\ sep[1] = SLASH /\ sep[Len(sep)] = SLASH
  THEN LET re == regexpCompile(SubSeq(sep, 2, Len(sep) - 1)) IN
       IF re.ok THEN [died |-> FALSE, ret |-> regexpSplit(re, input)]
       ELSE [died |-> TRUE, ret |-> <<>>]
  ELSE [died |-> FALSE, ret |-> stringsSplit(input, sep)]
\* prelude.GSplit: the fields, or died when the expression does not compile.
GSplit(sep, input) ==
  IF sep = <<SP>> THEN [died |-> FALSE, ret |-> stringsFields(input)]
  ELSE IF Len(sep) > 1 /\ sep[1] = SLASH /\ sep[Len(sep)] = SLASH
  THEN LET re == regexpCompile(SubSeq(sep, 2, Len(sep) - 1)) IN
       IF re.ok THEN [died |-> FALSE, ret |-> regexpSplit(re, input)]
       ELSE [died |-> TRUE, ret |-> <<>>]
  ELSE [died |-> FALSE, ret |-> stringsSplit(input, sep)]

\* ------------------------------------------------------------ the universe
F1 == <<"f">>
F2 == <<"g">>
DevStdin == <<"/", "d", "e", "v", "/", "s", "t", "d", "i", "n">>
FileNames == {F1, F2}
Patterns == {<<>>, <<".", "b", "a", "k">>, <<"o", "r", "i", "g", "_", STAR>>}
AllNames == FileNames \cup {DevStdin}
              \cup {BackupName(n, e) : n \in FileNames, e \in Patterns \ {<<>>}}
Chars == {"a", NL}
\* The content of a name that does not exist.
Absent == <<"absent">>
Contents == SeqsUpTo(Chars, MaxLen)
\* What the second file holds: nothing, an unterminated line, a terminated line.
Contents2 == {<<>>, <<"a">>, <<"a", NL>>}
\* The argument lists, up to renaming the files: a non-empty one starts with F1.
ArgLists == {a \in SeqsUpTo(FileNames, MaxArgs) : Len(a) > 0 => a[1] = F1}
\* The content of a file the run is not given as an argument.
Bystander == <<"a", NL>>
InArgs(a, n) == \E i \in 1..Len(a) : a[i] = n
\* The -e snippets the model runs: nothing; the test's
\* Line = strings.ToUpper(Line); fmt.Fprintln(os.Stdout, LineNum); and Print(Line).
Scripts == {"empty", "upper_tee", "print"}
\* The -F separators of the runs with auto-split: the default, literals,
\* regular expressions, and an expression that does not compile.
RunSeparators ==
  { <<SP>>, <<"a">>, <<NL>>, <<SLASH, "a", SLASH>>, <<SLASH, NL, SLASH>>,
    <<SLASH, "(", SLASH>> }
\* How a snippet leaves the Line iteration.
Exits == {"fall", "continueLine", "breakLine", "continueFile", "breakFile"}
\* An empty snippet falls through; the others may end with any of the jumps.
ExitsOf(script) == IF script = "empty" THEN {"fall"} ELSE Exits

\* --------------------------------------------------------------- variables
VARIABLES
  p,              \* the Prog record handed to the template
  pc, status,     \* position in the generated program; its exit status
  GolfInPlace, GolfInPlaceBak,
  golfFilenames, fileIdx, Filename, LineNum, Line, golfPDirty,
  CurOut,         \* 0 is os.Stdout, otherwise the inode written to
  golfFile,       \* inode of the input open for reading, 0 when none
  scanner,        \* [loaded, buf, n]
  openInputs,     \* file indexes whose input handle is open
  dir, inode,     \* the file system: name -> inode id (0 absent), inode id -> content
  stdout, stderr,
  \* history
  fs0,            \* the file system before the run: name -> content or Absent
  wlog,           \* every write: [idx, dst, via, data]
  seen,           \* what the snippet saw: [file, num, ord, idx]
  created,        \* file index -> inode created as its replacement (0 none)
  lineIdx,        \* index of the file the current Line was read from
  lineLog,        \* per line read: [idx, text, final] (final: Line when the snippet ended)
  renameFailed,   \* file indexes whose backup rename failed
  trace,          \* blocks run, inputs opened, snippet runs, final close, in order
  steps,          \* the scaffold's steps at file boundaries and loop exits: [op, idx]
  faults,         \* the operations that failed: [step, idx]
  \* golf itself: main()
  osArgs,         \* os.Args, the program name first
  origArgs,       \* history: os.Args as the process was started
  mpc,            \* position in main()
  exitCode,       \* golf's exit status, -1 while it runs
  fl,             \* the flag variables, and the names flag.Parse has set
  positional,     \* flag.Args()
  prog,           \* the Prog main() builds
  rendered,       \* whether transform has produced p.Src
  Src,            \* p.Src: the lines the template produced, by section
  toolRuns,       \* external tools started
  exitAt,         \* where main() was when it called os.Exit, "none" before
  xf,             \* what transform() did: its errors and the template output
  \* golf itself: Prog.run()
  dp,             \* the Prog fields run reads: Keep, Goimports, Imports
  dpc,            \* position in run()
  dlog,           \* history: the steps attempted, in order, and whether each succeeded
  tmpdir,         \* whether the scratch directory exists
  cleanup,        \* whether the deferred RemoveAll is registered
  removeTries,    \* history: how often RemoveAll was attempted
  childCode,      \* exit status of the generated program, -1 before it ran
  ret,            \* what run() returns, -1 before it returns
  golfExit,       \* the status main() passes to os.Exit, -1 before
  \* the prelude's functions, called on their own
  Fields,         \* prelude.Fields
  Warnings,       \* prelude.Warnings
  ppc,            \* "ready" before the call, "called" after, "off" otherwise
  call,           \* the call made: function, arguments, result
  warned,         \* diagnostics written to standard error by the call
  pexit           \* exit status if the call ended the process, -1 otherwise

runVars == <<p, pc, status, GolfInPlace, GolfInPlaceBak, golfFilenames, fileIdx,
             Filename, LineNum, Line, golfPDirty, CurOut, golfFile, scanner,
             openInputs, dir, inode, stdout, stderr, fs0, wlog, seen, created,
             lineIdx, lineLog, renameFailed, trace, steps, faults>>

mainVars == <<osArgs, origArgs, mpc, exitCode, exitAt, fl, positional, prog, rendered,
              Src, toolRuns, xf>>

drvVars == <<dp, dpc, dlog, tmpdir, cleanup, removeTries, childCode, ret, golfExit>>

preVars == <<Fields, Warnings, ppc, call, warned, pexit>>

vars == <<runVars, mainVars, drvVars, preVars>>

\* ------------------------------------------------------- generated program
\* init(): GolfFlgL = {{ .FlgL }}
GolfFlgL == p.FlgL
\* init(): IFS = {{ printf "%q" .FlgF }}
IFS == p.FlgF

\* A write that ignores the handle and goes to os.Stdout.
EmitToStdout(o, h, data, via, k) ==
  [ino |-> o.ino,
   out |-> o.out \o data,
   log |-> Append(o.log, [idx |-> k, dst |-> 0, via |-> via, data |-> data])]

\* A write of data through handle h.
Emit(o, h, data, via, k) ==
  [ino |-> IF h = 0 THEN o.ino ELSE [o.ino EXCEPT ![h] = @ \o data],
   out |-> IF h = 0 THEN o.out \o data ELSE o.out,
   log |-> Append(o.log, [idx |-> k, dst |-> h, via |-> via, data |-> data])]

GolfPrintNoNewline(o, h, xs, via, k) == Emit(o, h, xs, via, k)
\* prelude.Print
GolfPrint(o, h, xs, via, k) ==
  IF GolfFlgL THEN Emit(o, h, xs \o <<NL>>, via, k) ELSE Emit(o, h, xs, via, k)

OutState == [ino |-> inode, out |-> stdout, log |-> wlog]

\* _golfFlushP: the output after it (the caller clears _golfPDirty).
golfFlushP(o, h) ==
  IF golfPDirty THEN GolfPrint(o, h, Line, "auto", lineIdx) ELSE o

\* _golfCloseOut that leaves CurOut as it is.
golfCloseOutKeeps(h) == h
\* _golfCloseOut: CurOut after it.
golfCloseOut(h) == 0

\* Warn in place of Die: the message, then on to the next file.
WarnAndGoOn(msg) ==
  /\ stderr' = Append(stderr, msg)
  /\ status' = status
  /\ pc' = "file"

\* Die: Warn, then os.Exit(1).
Die(msg) ==
  /\ stderr' = Append(stderr, msg)
  /\ status' = 1
  /\ pc' = "died"

\* A capture that restores the terminator whatever the flag.
CaptureLineWithNL(tok) == tok \o <<NL>>
\* The Line the scaffold captures from a scanned token.
CaptureLine(tok) == IF p.FlgL THEN tok ELSE tok \o <<NL>>

\* A split of the scanned text, before the terminator is restored.
SplitScanned(line) ==
  IF p.FlgA
  THEN GSplit(IFS, IF line # <<>> /\ line[Len(line)] = NL
                   THEN SubSeq(line, 1, Len(line) - 1) ELSE line)
  ELSE [died |-> FALSE, ret |-> Fields]
\* Lines 306-308: with -a, Fields = GSplit(IFS, Line); without, Fields stays.
SplitLine(line) ==
  IF p.FlgA THEN GSplit(IFS, line) ELSE [died |-> FALSE, ret |-> Fields]

\* What the snippet does to Line and the output: [line, o].
Snippet(script, line, o, h, num, k) ==
  CASE script = "empty" -> [line |-> line, o |-> o]
    [] script = "upper_tee" ->
         [line |-> ToUpper(line), o |-> Emit(o, 0, Itoa(num) \o <<NL>>, "stdout", k)]
    [] script = "print" -> [line |-> line, o |-> GolfPrint(o, h, line, "print", k)]

\* The -b and -E blocks the program was rendered with.
BeginSrc == <<"b1", "b2">>
EndSrc == <<"e1", "e2">>
\* A range that emits only the last block.
RunLastBlock(tr, blocks) == Append(tr, blocks[Len(blocks)])
\* Lines 236-238 and 325-327: {{range}} emits the blocks in order; they run
\* once where they stand.
RunBlocks(tr, blocks) == tr \o blocks

\* main() is not running.
\* transform has not been called.
NotTransformed == [done |-> FALSE, execErr |-> FALSE, formatErr |-> FALSE, raw |-> <<>>]

MainIdle ==
  /\ osArgs = <<>>
  /\ origArgs = <<>>
  /\ mpc = "off"
  /\ exitCode = -1
  /\ fl = <<>>
  /\ positional = <<>>
  /\ prog = <<>>
  /\ rendered = FALSE
  /\ Src = <<>>
  /\ toolRuns = 0
  /\ exitAt = "none"
  /\ xf = NotTransformed

\* Prog.run() is not running.
DriverIdle ==
  /\ dp = <<>>
  /\ dpc = "off"
  /\ dlog = <<>>
  /\ tmpdir = FALSE
  /\ cleanup = FALSE
  /\ removeTries = 0
  /\ childCode = -1
  /\ ret = -1
  /\ golfExit = -1

\* No prelude function is being called on its own.
PreludeIdle ==
  /\ Fields = <<>>
  /\ Warnings = FALSE
  /\ ppc = "off"
  /\ call = <<>>
  /\ warned = 0
  /\ pexit = -1

Init ==
  /\ MainIdle
  /\ DriverIdle
  /\ PreludeIdle
  /\ p \in {r \in [FlgN : BOOLEAN, FlgP : BOOLEAN, FlgL : BOOLEAN, FlgA : BOOLEAN,
                   FlgF : RunSeparators, InPlace : BOOLEAN,
                   InPlaceBak : Patterns, RawArgs : ArgLists, RawSrc : Scripts] :
              /\ r.FlgP => r.FlgN
              /\ r.FlgA => r.FlgN
              /\ (r.FlgF # <<SP>>) => r.FlgA
              /\ (r.InPlaceBak # <<>>) => r.InPlace
              \* Auto-split is run on one input at most, outside in-place
              \* mode, with the empty snippet.
              /\ r.FlgA => (~r.InPlace /\ Len(r.RawArgs) <= 1 /\ r.RawSrc = "empty")}
  /\ pc = "begin"
  /\ status = -1
  /\ GolfInPlace = p.InPlace
  /\ GolfInPlaceBak = p.InPlaceBak
  /\ golfFilenames = <<>>
  /\ fileIdx = 0
  /\ Filename = <<>>
  /\ LineNum = 0
  /\ Line = <<>>
  /\ golfPDirty = FALSE
  /\ CurOut = 0
  /\ golfFile = 0
  /\ scanner = [loaded |-> FALSE, buf |-> <<>>, n |-> 0]
  /\ openInputs = {}
  /\ \E c1 \in Contents \cup {Absent}, c2 \in Contents2 \cup {Absent}, c0 \in Contents :
       /\ fs0 = [n \in AllNames |->
                   IF n = F1 THEN c1 ELSE IF n = F2 THEN c2
                   ELSE IF n = DevStdin THEN c0 ELSE Absent]
       /\ (~InArgs(p.RawArgs, F1) \/ ~p.FlgN) => c1 = Bystander
       /\ (~InArgs(p.RawArgs, F2) \/ ~p.FlgN) => c2 = Bystander
       /\ (p.RawArgs # <<>> \/ ~p.FlgN) => c0 = <<>>
       /\ inode = <<IF c1 = Absent THEN <<>> ELSE c1,
                    IF c2 = Absent THEN <<>> ELSE c2, c0>>
       /\ dir = [n \in AllNames |->
                   IF n = F1 /\ c1 # Absent THEN 1
                   ELSE IF n = F2 /\ c2 # Absent THEN 2
                   ELSE IF n = DevStdin THEN 3 ELSE 0]
  /\ stdout = <<>>
  /\ stderr = <<>>
  /\ wlog = <<>>
  /\ seen = <<>>
  /\ created = <<>>
  /\ lineIdx = 0
  /\ lineLog = <<>>
  /\ renameFailed = {}
  /\ trace = <<>>
  /\ steps = <<>>
  /\ faults = <<>>

\* ---- the scaffold, one action per step of the template's main()

\* A scaffold that in-place mode turns on as well.
LineModeOrInPlace(q) == q.FlgN \/ q.InPlace
\* Lines 240 and 313, {{if .FlgN}}: the scaffold is part of the program only
\* in line mode.
LineMode(q) == q.FlgN

\* Begin without lines 262-263: in-place mode stays on for standard input.
BeginKeepInPlace ==
  /\ pc = "begin"
  /\ IF LineMode(p)
     THEN /\ pc' = "file"
          /\ IF Len(p.RawArgs) = 0
             THEN /\ golfFilenames' = <<DevStdin>>
                  /\ UNCHANGED <<GolfInPlace, GolfInPlaceBak>>
             ELSE /\ golfFilenames' = p.RawArgs
                  /\ UNCHANGED <<GolfInPlace, GolfInPlaceBak>>
     ELSE /\ pc' = "snippet"
          /\ UNCHANGED <<golfFilenames, GolfInPlace, GolfInPlaceBak>>
  /\ trace' = RunBlocks(trace, BeginSrc)
  /\ UNCHANGED <<mainVars, drvVars, preVars>>
  /\ UNCHANGED <<p, status, fileIdx, Filename, LineNum, Line, golfPDirty, CurOut,
                 golfFile, scanner, openInputs, dir, inode, stdout, stderr, fs0,
                 wlog, seen, created, lineIdx, lineLog, renameFailed, steps, faults>>

\* Lines 235-264: the -b blocks, then (in line mode) the file list.
Begin ==
  /\ pc = "begin"
  /\ IF LineMode(p)
     THEN /\ pc' = "file"
          /\ IF Len(p.RawArgs) = 0
             THEN /\ golfFilenames' = <<DevStdin>>
                  /\ GolfInPlace' = FALSE
                  /\ GolfInPlaceBak' = <<>>
             ELSE /\ golfFilenames' = p.RawArgs
                  /\ UNCHANGED <<GolfInPlace, GolfInPlaceBak>>
     ELSE /\ pc' = "snippet"
          /\ UNCHANGED <<golfFilenames, GolfInPlace, GolfInPlaceBak>>
  /\ trace' = RunBlocks(trace, BeginSrc)
  /\ UNCHANGED <<mainVars, drvVars, preVars>>
  /\ UNCHANGED <<p, status, fileIdx, Filename, LineNum, Line, golfPDirty, CurOut,
                 golfFile, scanner, openInputs, dir, inode, stdout, stderr, fs0,
                 wlog, seen, created, lineIdx, lineLog, renameFailed, steps, faults>>

\* Lines 310-312 without -n: the snippet runs once.
SnippetOnce ==
  /\ pc = "snippet"
  /\ LET r == Snippet(p.RawSrc, Line, OutState, CurOut, LineNum, 0) IN
       /\ Line' = r.line
       /\ inode' = r.o.ino
       /\ stdout' = r.o.out
       /\ wlog' = r.o.log
  /\ pc' = "end"
  /\ trace' = Append(trace, "snippet")
  /\ UNCHANGED <<mainVars, drvVars, preVars>>
  /\ UNCHANGED <<p, status, GolfInPlace, GolfInPlaceBak, golfFilenames, fileIdx,
                 Filename, LineNum, golfPDirty, CurOut, golfFile, scanner,
                 openInputs, dir, stderr, fs0, seen, created, lineIdx, lineLog,
                 renameFailed, steps, faults>>

\* Lines 266-272: the next file: flush, close the output, open the input.
NextFile ==
  /\ pc = "file"
  /\ fileIdx < Len(golfFilenames)
  /\ LET name == golfFilenames[fileIdx + 1]
         o == golfFlushP(OutState, CurOut)
     IN /\ fileIdx' = fileIdx + 1
        /\ Filename' = name
        /\ golfPDirty' = FALSE
        /\ inode' = o.ino
        /\ stdout' = o.out
        /\ wlog' = o.log
        /\ CurOut' = golfCloseOut(CurOut)
        /\ created' = Append(created, 0)
        /\ IF dir[name] = 0
           THEN /\ Die("open")
                /\ UNCHANGED <<golfFile, openInputs>>
           ELSE /\ golfFile' = dir[name]
                /\ openInputs' = openInputs \cup {fileIdx + 1}
                /\ pc' = "inplace"
                /\ UNCHANGED <<status, stderr>>
  /\ trace' = Append(trace, "open")
  /\ steps' = steps \o <<[op |-> "flush", idx |-> fileIdx + 1], [op |-> "close", idx |-> fileIdx + 1], [op |-> "open", idx |-> fileIdx + 1]>>
  /\ faults' = IF dir[golfFilenames[fileIdx + 1]] = 0
               THEN Append(faults, [step |-> "open", idx |-> fileIdx + 1])
               ELSE faults
  /\ UNCHANGED <<mainVars, drvVars, preVars>>
  /\ UNCHANGED <<p, GolfInPlace, GolfInPlaceBak, golfFilenames, LineNum, Line,
                 scanner, dir, fs0, seen, lineIdx, lineLog, renameFailed>>

\* EnterFile without the reset of LineNum.
EnterFileNoReset ==
  /\ LineNum' = LineNum
  /\ scanner' = [loaded |-> FALSE, buf |-> <<>>, n |-> 0]
  /\ pc' = "scan"

\* Lines 294-295: LineNum = 0 and a new scanner over the open input.
EnterFile ==
  /\ LineNum' = 0
  /\ scanner' = [loaded |-> FALSE, buf |-> <<>>, n |-> 0]
  /\ pc' = "scan"

\* Line 275 with GolfInPlace false.
NoInPlace ==
  /\ pc = "inplace"
  /\ ~GolfInPlace
  /\ EnterFile
  /\ steps' = Append(steps, [op |-> "reset", idx |-> fileIdx])
  /\ UNCHANGED <<mainVars, drvVars, preVars>>
  /\ UNCHANGED <<p, status, GolfInPlace, GolfInPlaceBak, golfFilenames, fileIdx,
                 Filename, Line, golfPDirty, CurOut, golfFile, openInputs, dir,
                 inode, stdout, stderr, fs0, wlog, seen, created, lineIdx, lineLog,
                 renameFailed, trace, faults>>

\* Lines 276-282: no backup: unlink the input; a failure is fatal.
InPlaceRemove ==
  /\ pc = "inplace"
  /\ GolfInPlace
  /\ GolfInPlaceBak = <<>>
  /\ \E removeErr \in BOOLEAN :
       IF removeErr
       THEN /\ Die("remove")
            /\ faults' = Append(faults, [step |-> "remove", idx |-> fileIdx])
            /\ UNCHANGED dir
       ELSE /\ dir' = [dir EXCEPT ![Filename] = 0]
            /\ pc' = "create"
            /\ UNCHANGED <<status, stderr, faults>>
  /\ steps' = Append(steps, [op |-> "remove", idx |-> fileIdx])
  /\ UNCHANGED <<mainVars, drvVars, preVars>>
  /\ UNCHANGED <<p, GolfInPlace, GolfInPlaceBak, golfFilenames, fileIdx, Filename,
                 LineNum, Line, golfPDirty, CurOut, golfFile, scanner, openInputs,
                 inode, stdout, fs0, wlog, seen, created, lineIdx, lineLog,
                 renameFailed, trace>>

\* A rename that leaves an existing new name alone.
RenameNoClobber(d, old, new) ==
  IF old = new \/ d[new] # 0 THEN d ELSE [d EXCEPT ![new] = d[old], ![old] = 0]
\* os.Rename(old, new): the directory after a successful rename.
Rename(d, old, new) ==
  IF old = new THEN d ELSE [d EXCEPT ![new] = d[old], ![old] = 0]

RenameErrTested(openErr, renameErr) == renameErr
\* Line 285: `if os.Rename(Filename, bakname); err != nil` drops Rename's result
\* and tests the err of os.Open, which is nil once line 270 was passed.
RenameErrSeen(openErr, renameErr) == openErr

\* Lines 283-288: with a backup pattern: rename the input to its backup name.
InPlaceRename ==
  /\ pc = "inplace"
  /\ GolfInPlace
  /\ GolfInPlaceBak # <<>>
  /\ \E renameErr \in BOOLEAN :
       LET bakname == BackupName(Filename, GolfInPlaceBak) IN
       /\ dir' = IF renameErr THEN dir ELSE Rename(dir, Filename, bakname)
       /\ renameFailed' = IF renameErr THEN renameFailed \cup {fileIdx} ELSE renameFailed
       /\ IF RenameErrSeen(FALSE, renameErr)
          THEN Die("rename")
          ELSE /\ pc' = "create"
               /\ UNCHANGED <<status, stderr>>
  /\ steps' = Append(steps, [op |-> "rename", idx |-> fileIdx])
  /\ UNCHANGED <<mainVars, drvVars, preVars>>
  /\ UNCHANGED <<p, GolfInPlace, GolfInPlaceBak, golfFilenames, fileIdx, Filename,
                 LineNum, Line, golfPDirty, CurOut, golfFile, scanner, openInputs,
                 inode, stdout, fs0, wlog, seen, created, lineIdx, lineLog, trace, faults>>

\* Lines 290-295: os.Create(Filename) becomes CurOut; a failure is fatal.
\* os.Create truncates the inode an existing name refers to.
CreateOut ==
  /\ pc = "create"
  /\ \E createErr \in BOOLEAN :
       IF createErr
       THEN /\ Die("create")
            /\ faults' = Append(faults, [step |-> "create", idx |-> fileIdx])
            /\ steps' = Append(steps, [op |-> "create", idx |-> fileIdx])
            /\ UNCHANGED <<CurOut, dir, inode, created, LineNum, scanner>>
       ELSE /\ IF dir[Filename] = 0
               THEN /\ inode' = Append(inode, <<>>)
                    /\ dir' = [dir EXCEPT ![Filename] = Len(inode) + 1]
                    /\ CurOut' = Len(inode) + 1
                    /\ created' = [created EXCEPT ![fileIdx] = Len(inode) + 1]
               ELSE /\ inode' = [inode EXCEPT ![dir[Filename]] = <<>>]
                    /\ CurOut' = dir[Filename]
                    /\ created' = [created EXCEPT ![fileIdx] = dir[Filename]]
                    /\ UNCHANGED dir
            /\ EnterFile
            /\ steps' = steps \o <<[op |-> "create", idx |-> fileIdx], [op |-> "reset", idx |-> fileIdx]>>
            /\ UNCHANGED <<status, stderr, faults>>
  /\ UNCHANGED <<mainVars, drvVars, preVars>>
  /\ UNCHANGED <<p, GolfInPlace, GolfInPlaceBak, golfFilenames, fileIdx, Filename,
                 Line, golfPDirty, golfFile, openInputs, stdout, fs0, wlog, seen,
                 lineIdx, lineLog, renameFailed, trace>>

\* What the scanner has left to deliver: a small file is read whole by the first
\* Scan, from the inode as it is at that moment.
ScanData == IF scanner.loaded THEN scanner.buf ELSE inode[golfFile]

\* AfterSnippet with break File jumping past the flush of line 321.
AfterSnippetSkipFlush(exit) ==
  CASE exit \in {"fall", "continueLine"} -> "scan"
    [] exit \in {"breakLine", "continueFile"} -> "file"
    [] exit = "breakFile" -> "end"

\* AfterSnippet with break File taken as continue File.
AfterSnippetBreakContinues(exit) ==
  CASE exit \in {"fall", "continueLine"} -> "scan"
    [] exit \in {"breakLine", "continueFile", "breakFile"} -> "file"

\* Where the scaffold goes when the snippet leaves the iteration: break Line
\* reaches the Err() check of line 316 (nil after a successful Scan) and then
\* line 319.
AfterSnippet(exit) ==
  CASE exit \in {"fall", "continueLine"} -> "scan"
    [] exit \in {"breakLine", "continueFile"} -> "file"
    [] exit = "breakFile" -> "after"

\* Lines 297-314: one iteration of the Line loop.
ScanLine ==
  /\ pc = "scan"
  /\ ScanLines(ScanData).ok
  /\ ~SplitLine(CaptureLine(ScanLines(ScanData).token)).died
  /\ \E exit \in ExitsOf(p.RawSrc) :
       LET tok == ScanLines(ScanData)
           o1 == golfFlushP(OutState, CurOut)
           num == LineNum + 1
           line == CaptureLine(tok.token)
           r == Snippet(p.RawSrc, line, o1, CurOut, num, fileIdx)
       IN /\ scanner' = [loaded |-> TRUE, buf |-> tok.rest, n |-> scanner.n + 1]
          /\ LineNum' = num
          /\ Line' = r.line
          /\ Fields' = SplitLine(line).ret
          /\ golfPDirty' = p.FlgP
          /\ lineIdx' = fileIdx
          /\ inode' = r.o.ino
          /\ stdout' = r.o.out
          /\ wlog' = r.o.log
          /\ seen' = Append(seen, [file |-> Filename, num |-> num,
                                   ord |-> scanner.n + 1, idx |-> fileIdx])
          /\ lineLog' = Append(lineLog, [idx |-> fileIdx, text |-> line,
                                         final |-> r.line,
                                         fields |-> SplitLine(line).ret])
          /\ pc' = AfterSnippet(exit)
          /\ steps' = IF exit = "breakFile"
                       THEN Append(steps, [op |-> "breakFile", idx |-> fileIdx])
                       ELSE steps
  /\ trace' = Append(trace, "snippet")
  /\ UNCHANGED <<mainVars, drvVars>>
  /\ UNCHANGED <<Warnings, ppc, call, warned, pexit>>
  /\ UNCHANGED <<p, status, GolfInPlace, GolfInPlaceBak, golfFilenames, fileIdx,
                 Filename, CurOut, golfFile, openInputs, dir, stderr, fs0, created,
                 renameFailed, faults>>

\* Lines 297-307 when the -F expression does not compile: GSplit calls Die
\* on the first line, after the flush and the capture, before the snippet.
ScanLineSplitDies ==
  /\ pc = "scan"
  /\ ScanLines(ScanData).ok
  /\ SplitLine(CaptureLine(ScanLines(ScanData).token)).died
  /\ LET tok == ScanLines(ScanData)
         o1 == golfFlushP(OutState, CurOut)
     IN /\ scanner' = [loaded |-> TRUE, buf |-> tok.rest, n |-> scanner.n + 1]
        /\ LineNum' = LineNum + 1
        /\ Line' = CaptureLine(tok.token)
        /\ golfPDirty' = p.FlgP
        /\ lineIdx' = fileIdx
        /\ inode' = o1.ino
        /\ stdout' = o1.out
        /\ wlog' = o1.log
  /\ Die("split")
  /\ UNCHANGED <<mainVars, drvVars, preVars>>
  /\ UNCHANGED <<p, GolfInPlace, GolfInPlaceBak, golfFilenames, fileIdx,
                 Filename, CurOut, golfFile, openInputs, dir, fs0, created,
                 renameFailed, faults, seen, lineLog, trace, steps>>

\* Lines 297, 316-319: Scan reports the end of the input; Err() is nil.
ScanEOF ==
  /\ pc = "scan"
  /\ ~ScanLines(ScanData).ok
  /\ scanner' = [scanner EXCEPT !.loaded = TRUE, !.buf = <<>>]
  /\ pc' = "file"
  /\ UNCHANGED <<mainVars, drvVars, preVars>>
  /\ UNCHANGED <<p, status, GolfInPlace, GolfInPlaceBak, golfFilenames, fileIdx,
                 Filename, LineNum, Line, golfPDirty, CurOut, golfFile, openInputs,
                 dir, inode, stdout, stderr, fs0, wlog, seen, created, lineIdx,
                 lineLog, renameFailed, trace, steps, faults>>

\* Lines 297, 316-318: Scan stops on a read error; Die names the file.
ScanError ==
  /\ pc = "scan"
  /\ Die("read")
  /\ faults' = Append(faults, [step |-> "read", idx |-> fileIdx])
  /\ UNCHANGED <<mainVars, drvVars, preVars>>
  /\ UNCHANGED <<p, GolfInPlace, GolfInPlaceBak, golfFilenames, fileIdx, Filename,
                 LineNum, Line, golfPDirty, CurOut, golfFile, scanner, openInputs,
                 dir, inode, stdout, fs0, wlog, seen, created, lineIdx, lineLog,
                 renameFailed, trace, steps>>

\* Lines 321-322: after the File loop (exhausted, or left by break File).
LoopExit ==
  /\ \/ pc = "file" /\ fileIdx = Len(golfFilenames)
     \/ pc = "after"
  /\ LET o == golfFlushP(OutState, CurOut) IN
       /\ inode' = o.ino
       /\ stdout' = o.out
       /\ wlog' = o.log
  /\ golfPDirty' = FALSE
  /\ CurOut' = golfCloseOut(CurOut)
  /\ pc' = "end"
  /\ trace' = Append(trace, "close")
  /\ steps' = steps \o <<[op |-> "flush", idx |-> 0], [op |-> "close", idx |-> 0]>>
  /\ UNCHANGED <<mainVars, drvVars, preVars>>
  /\ UNCHANGED <<p, status, GolfInPlace, GolfInPlaceBak, golfFilenames, fileIdx,
                 Filename, LineNum, Line, golfFile, scanner, openInputs, dir,
                 stderr, fs0, seen, created, lineIdx, lineLog, renameFailed, faults>>

\* Lines 324-329: the -E blocks, then main returns.
EndBlocks ==
  /\ pc = "end"
  /\ pc' = "done"
  /\ status' = 0
  /\ trace' = RunBlocks(trace, EndSrc)
  /\ steps' = Append(steps, [op |-> "end", idx |-> 0])
  /\ UNCHANGED <<mainVars, drvVars, preVars>>
  /\ UNCHANGED <<p, GolfInPlace, GolfInPlaceBak, golfFilenames, fileIdx, Filename,
                 LineNum, Line, golfPDirty, CurOut, golfFile, scanner, openInputs,
                 dir, inode, stdout, stderr, fs0, wlog, seen, created, lineIdx,
                 lineLog, renameFailed, faults>>

Next ==
  \/ Begin
  \/ SnippetOnce
  \/ NextFile
  \/ NoInPlace
  \/ InPlaceRemove
  \/ InPlaceRename
  \/ CreateOut
  \/ ScanLine
  \/ ScanLineSplitDies
  \/ ScanEOF
  \/ ScanError
  \/ LoopExit
  \/ EndBlocks


\* The generated program, run on a file system.
Spec == Init /\ [][Next]_vars

\* ------------------------------------------------------------ golf: flags
\* Longest argument vector after the program name.
MaxArgv == 3

Golf == <<"g", "o", "l", "f">>
DashDash == <<"-", "-">>
\* The arguments the model draws command lines from: flags, clusters, an
\* unknown flag, the terminator, and two words that serve as values and files.
ArgTokens ==
  { <<"-", "n">>, <<"-", "p">>, <<"-", "a">>, <<"-", "i">>,
    <<"-", "F">>, <<"-", "I">>, <<"-", "e">>,
    <<"-", "h">>, DashDash, <<"-", "x">>, <<"-", "p", "e">>, <<"-", "e", "n">>,
    <<"-", "n", "p">>, <<"-", "h", "e", "l", "p">>,
    <<":">>, <<"f">> }
ArgVectors == {<<Golf>> \o a : a \in SeqsUpTo(ArgTokens, MaxArgv)}
\* Command lines with the arguments a shell can pass besides those: the empty
\* string and a lone "-", next to -e and a word.
OddTokens == { <<"-", "e">>, <<>>, <<"-">>, <<"f">> }
OddVectors == {<<Golf>> \o a : a \in SeqsUpTo(OddTokens, MaxArgv)}

\* Most flags of a command line made of repeatable flags with their values.
MaxPairs == 3
Bufio == <<"b", "u", "f", "i", "o">>
\* The repeatable flags with a value each (-b, -BEGIN, -E, -END, -M), and -n.
FlagPairs ==
  { <<n, v>> : n \in { <<"-", "b">>, <<"-", "B", "E", "G", "I", "N">>,
                       <<"-", "E">>, <<"-", "E", "N", "D">> },
               v \in { <<"x">>, <<"y">> } }
  \cup { <<<<"-", "M">>, m>> : m \in { <<"f", "m", "t">>, Bufio, <<"m", "a", "t", "h">> } }
  \cup { << <<"-", "n">> >> }
RECURSIVE Concat(_)
Concat(ss) == IF ss = <<>> THEN <<>> ELSE Head(ss) \o Concat(Tail(ss))
ListVectors == {<<Golf>> \o Concat(ps) : ps \in SeqsUpTo(FlagPairs, MaxPairs)}

\* init(), lines 171-179: the registered names longer than one character.
longFlags == { <<"g", "o", "V", "e", "r">>, <<"h", "e", "l", "p">>,
               <<"B", "E", "G", "I", "N">>, <<"E", "N", "D">> }
\* Every one-letter flag, as if line 175 did not ask for IsBoolFlag.
shortFlagsAny == {"n", "l", "p", "g", "a", "i", "k", "w", "h",
                  "e", "F", "I", "M", "b", "E"}
\* init(), lines 171-179: the one-letter flags whose Value is a bool flag.
shortBoolFlags == {"n", "l", "p", "g", "a", "i", "k", "w", "h"}
\* Lines 142-169: the flags that take a value.
valueFlags == { <<"e">>, <<"F">>, <<"I">>, <<"M">>, <<"b">>, <<"E">>,
                <<"g", "o", "V", "e", "r">>, <<"B", "E", "G", "I", "N">>,
                <<"E", "N", "D">> }
boolFlags == {<<c>> : c \in shortBoolFlags} \cup {<<"h", "e", "l", "p">>}

\* Line 496 as intended: from the "--" itself.
DashDashTail(args, t) == SubSeq(args, t, Len(args))
\* Line 496: res = append(res, os.Args[i:]...), where i indexes os.Args[1:]:
\* v is os.Args[i+1], so the slice starts one argument before the "--".
\* (t is the 1-based position of v in args.)
DashDashRest(args, t) == SubSeq(args, t - 1, Len(args))

RECURSIVE declusterFrom(_, _, _)
\* decluster, lines 487-511, from position t of os.Args with res built so far.
\* kind is "ok", "exit1" (os.Exit(1) of line 505) or "panic" (v[0] of an empty v).
declusterFrom(args, t, res) ==
  IF t > Len(args) THEN [kind |-> "ok", res |-> res]
  ELSE LET v == args[t] IN
    IF v = <<>> THEN [kind |-> "panic", res |-> res]
    ELSE IF v[1] # "-" \/ Tail(v) \in longFlags
         THEN declusterFrom(args, t + 1, Append(res, v))
    ELSE IF v = DashDash THEN [kind |-> "ok", res |-> res \o DashDashRest(args, t)]
    ELSE LET letters == Tail(v) IN
         IF \E k \in 1..(Len(letters) - 1) : letters[k] \notin shortBoolFlags
         THEN [kind |-> "exit1", res |-> res]
         ELSE declusterFrom(args, t + 1,
                res \o [k \in 1..Len(letters) |-> <<"-", letters[k]>>])

decluster(args) == declusterFrom(args, 2, <<args[1]>>)

\* Lines 142-157: the flag variables at their defaults.
Defaults ==
  [rawSrc |-> <<>>, flgN |-> FALSE, flgL |-> FALSE, flgP |-> FALSE, flgG |-> FALSE,
   flgA |-> FALSE, flgF |-> <<" ">>, inplace |-> FALSE, inplaceBak |-> <<>>,
   flgKeep |-> FALSE, warnings |-> FALSE, goVer |-> <<"1", ".", "1", "7">>,
   help |-> FALSE, modules |-> <<>>, beginSrc |-> <<>>, endSrc |-> <<>>,
   actual |-> {}]

\* A Set that keeps only the latest value.
stringsValueOverwrite(v, s) == <<s>>
\* Lines 184-187: stringsValue.Set appends.
stringsValueSet(v, s) == Append(v, s)

\* flag.Value.Set for the flag called name (lines 142-169, 184-187).
SetFlag(f, name, val) ==
  LET g == [f EXCEPT !.actual = @ \cup {name}] IN
  CASE name = <<"e">> -> [g EXCEPT !.rawSrc = val]
    [] name = <<"n">> -> [g EXCEPT !.flgN = TRUE]
    [] name = <<"l">> -> [g EXCEPT !.flgL = TRUE]
    [] name = <<"p">> -> [g EXCEPT !.flgP = TRUE]
    [] name = <<"g">> -> [g EXCEPT !.flgG = TRUE]
    [] name = <<"a">> -> [g EXCEPT !.flgA = TRUE]
    [] name = <<"F">> -> [g EXCEPT !.flgF = val]
    [] name = <<"i">> -> [g EXCEPT !.inplace = TRUE]
    [] name = <<"I">> -> [g EXCEPT !.inplaceBak = val]
    [] name = <<"k">> -> [g EXCEPT !.flgKeep = TRUE]
    [] name = <<"w">> -> [g EXCEPT !.warnings = TRUE]
    [] name = <<"g", "o", "V", "e", "r">> -> [g EXCEPT !.goVer = val]
    [] name \in {<<"h">>, <<"h", "e", "l", "p">>} -> [g EXCEPT !.help = TRUE]
    [] name = <<"M">> -> [g EXCEPT !.modules = stringsValueSet(@, val)]
    [] name \in {<<"b">>, <<"B", "E", "G", "I", "N">>} -> [g EXCEPT !.beginSrc = stringsValueSet(@, val)]
    [] name \in {<<"E">>, <<"E", "N", "D">>} -> [g EXCEPT !.endSrc = stringsValueSet(@, val)]

RECURSIVE parseFrom(_, _)
\* flag.Parse (line 543) on the arguments after the program name: the standard
\* library's FlagSet.parseOne, for arguments without "=". kind is "ok" or
\* "err"; flag.CommandLine is ExitOnError, so "err" ends the process with 2.
parseFrom(args, f) ==
  IF args = <<>> THEN [kind |-> "ok", fl |-> f, args |-> <<>>]
  ELSE LET s == Head(args) IN
    IF Len(s) < 2 \/ s[1] # "-" THEN [kind |-> "ok", fl |-> f, args |-> args]
    ELSE IF s = DashDash THEN [kind |-> "ok", fl |-> f, args |-> Tail(args)]
    ELSE LET name == IF s[2] = "-" THEN SubSeq(s, 3, Len(s)) ELSE Tail(s) IN
      IF name[1] = "-" THEN [kind |-> "err", fl |-> f, args |-> args]
      ELSE IF name \in boolFlags THEN parseFrom(Tail(args), SetFlag(f, name, <<>>))
      ELSE IF name \in valueFlags
           THEN IF Len(args) < 2 THEN [kind |-> "err", fl |-> f, args |-> args]
                ELSE parseFrom(Tail(Tail(args)), SetFlag(f, name, args[2]))
      ELSE [kind |-> "err", fl |-> f, args |-> args]

ImplyNoSplit(f) == f
\* Lines 552-557: -F implies -a.
ImplySplit(f) == IF <<"F">> \in f.actual THEN [f EXCEPT !.flgA = TRUE] ELSE f

ImplyNoLineMode(f) == f
\* Lines 559-560: -p and -a imply -n.
ImplyLineMode(f) == [f EXCEPT !.flgN = f.flgN \/ f.flgP \/ f.flgA]

ImplyNoInPlace(f) == f
\* Lines 562-563: -I implies -i.
ImplyInPlace(f) == [f EXCEPT !.inplace = f.inplace \/ Len(f.inplaceBak) > 0]

\* Byte order of the characters import names are made of.
LowerCase == <<"a", "b", "c", "d", "e", "f", "g", "h", "i", "j", "k", "l", "m",
               "n", "o", "p", "q", "r", "s", "t", "u", "v", "w", "x", "y", "z">>
RECURSIVE StrLess(_, _)
\* a < b on strings, as sort.Strings compares them.
StrLess(a, b) ==
  IF b = <<>> THEN FALSE
  ELSE IF a = <<>> THEN TRUE
  ELSE IF Head(a) # Head(b) THEN IndexOf(LowerCase, Head(a)) < IndexOf(LowerCase, Head(b))
  ELSE StrLess(Tail(a), Tail(b))
RECURSIVE Insert(_, _)
Insert(sorted, x) ==
  IF sorted = <<>> THEN <<x>>
  ELSE IF StrLess(x, Head(sorted)) THEN <<x>> \o sorted
  ELSE <<Head(sorted)>> \o Insert(Tail(sorted), x)
RECURSIVE SortStrings(_)
\* Line 514: sort.Strings(s).
SortStrings(s) == IF s = <<>> THEN <<>> ELSE Insert(SortStrings(Tail(s)), Head(s))
RECURSIVE Compact(_, _, _)
\* Lines 515-523: the loop of dedupe over the sorted s, from index r (1-based).
Compact(s, r, out) ==
  IF r > Len(s) THEN out
  ELSE IF r > 1 /\ s[r] = s[r - 1] THEN Compact(s, r + 1, out)
  ELSE Compact(s, r + 1, Append(out, s[r]))
\* dedupe that only sorts.
dedupeSortOnly(s) == SortStrings(s)
\* Lines 513-524: dedupe.
dedupe(s) == Compact(SortStrings(s), 1, <<>>)

\* Line 565: the imports every program gets.
BaseImports == << <<"i", "o">>, <<"o", "s">>, <<"r", "e", "g", "e", "x", "p">>,
                 <<"s", "t", "r", "c", "o", "n", "v">>,
                 <<"s", "t", "r", "i", "n", "g", "s">>, <<"f", "m", "t">> >>
\* Lines 565-572: the import list.
ImportsOf(f) ==
  dedupe(BaseImports \o (IF f.flgN THEN <<Bufio>> ELSE <<>>) \o f.modules)

\* Lines 574-591: the Prog built from the flag variables.
MakeProg(f, rest) ==
  [BeginSrc |-> f.beginSrc, RawSrc |-> f.rawSrc, EndSrc |-> f.endSrc,
   Imports |-> ImportsOf(f),
   RawArgs |-> rest, FlgN |-> f.flgN, FlgP |-> f.flgP, FlgL |-> f.flgL,
   FlgA |-> f.flgA, FlgF |-> f.flgF, InPlace |-> f.inplace,
   InPlaceBak |-> f.inplaceBak, Warnings |-> f.warnings, Goimports |-> f.flgG,
   Keep |-> f.flgKeep]

\* The lines of one section of the program text.
Section(sec, texts) ==
  [k \in 1..Len(texts) |-> [sec |-> sec, text |-> texts[k], gofmt |-> FALSE]]
\* Lines 215-330 and 332-346: the template executed on the Prog: the import
\* block, the -b blocks, the user's code, the -E blocks.
Render(q) ==
  Section("import", q.Imports) \o Section("begin", q.BeginSrc)
    \o Section("user", <<q.RawSrc>>) \o Section("end", q.EndSrc)

\* The generated program is not running.
RunIdle ==
  /\ p = <<>>
  /\ pc = "off"
  /\ status = -1
  /\ GolfInPlace = FALSE
  /\ GolfInPlaceBak = <<>>
  /\ golfFilenames = <<>>
  /\ fileIdx = 0
  /\ Filename = <<>>
  /\ LineNum = 0
  /\ Line = <<>>
  /\ golfPDirty = FALSE
  /\ CurOut = 0
  /\ golfFile = 0
  /\ scanner = <<>>
  /\ openInputs = {}
  /\ dir = <<>>
  /\ inode = <<>>
  /\ stdout = <<>>
  /\ stderr = <<>>
  /\ fs0 = <<>>
  /\ wlog = <<>>
  /\ seen = <<>>
  /\ created = <<>>
  /\ lineIdx = 0
  /\ lineLog = <<>>
  /\ renameFailed = {}
  /\ trace = <<>>
  /\ steps = <<>>
  /\ faults = <<>>

MainInit ==
  /\ RunIdle
  /\ DriverIdle
  /\ PreludeIdle
  /\ osArgs \in ArgVectors \cup ListVectors \cup OddVectors
  /\ origArgs = osArgs
  /\ mpc = "decluster"
  /\ exitCode = -1
  /\ fl = Defaults
  /\ positional = <<>>
  /\ prog = <<>>
  /\ rendered = FALSE
  /\ Src = <<>>
  /\ toolRuns = 0
  /\ exitAt = "none"
  /\ xf = NotTransformed

\* os.Exit(code)
Exit(code) ==
  /\ exitCode' = code
  /\ exitAt' = mpc
  /\ mpc' = "exited"

\* Line 542: decluster rewrites os.Args, or exits 1 on a value-taking letter
\* inside a cluster; a panic (index out of range) ends the process with 2.
Decluster ==
  /\ mpc = "decluster"
  /\ LET r == decluster(osArgs) IN
       CASE r.kind = "ok" -> /\ osArgs' = r.res
                             /\ mpc' = "parse"
                             /\ UNCHANGED <<exitCode, exitAt>>
         [] r.kind = "exit1" -> Exit(1) /\ UNCHANGED osArgs
         [] r.kind = "panic" -> Exit(2) /\ UNCHANGED osArgs
  /\ UNCHANGED <<origArgs, fl, positional, prog, rendered, Src, toolRuns, xf>>
  /\ UNCHANGED <<runVars, drvVars, preVars>>

\* A flag set that carries on after an error (flag.ContinueOnError).
ParseNeverFails(r) == FALSE
\* Line 543: flag.CommandLine is an ExitOnError flag set.
ParseFailed(r) == r.kind = "err"

\* Line 543: flag.Parse; an error exits with status 2 (flag.ExitOnError).
FlagParse ==
  /\ mpc = "parse"
  /\ LET r == parseFrom(Tail(osArgs), fl) IN
       IF ParseFailed(r)
       THEN /\ Exit(2)
            /\ UNCHANGED <<fl, positional>>
       ELSE /\ fl' = r.fl
            /\ positional' = r.args
            /\ mpc' = "derive"
            /\ UNCHANGED <<exitCode, exitAt>>
  /\ UNCHANGED <<origArgs, osArgs, prog, rendered, Src, toolRuns, xf>>
  /\ UNCHANGED <<runVars, drvVars, preVars>>

\* Lines 545-550: -h and -help print the usage and exit 0.
Help ==
  /\ mpc = "derive"
  /\ fl.help
  /\ Exit(0)
  /\ UNCHANGED <<origArgs, osArgs, fl, positional, prog, rendered, Src, toolRuns, xf>>
  /\ UNCHANGED <<runVars, drvVars, preVars>>

\* Lines 552-591: the implied flags, then the Prog.
Derive ==
  /\ mpc = "derive"
  /\ ~fl.help
  /\ fl' = ImplyInPlace(ImplyLineMode(ImplySplit(fl)))
  /\ prog' = MakeProg(fl', positional)
  /\ mpc' = "transform"
  /\ UNCHANGED <<origArgs, osArgs, exitCode, exitAt, positional, rendered, Src, toolRuns, xf>>
  /\ UNCHANGED <<runVars, drvVars, preVars>>

\* format.Source on the text of the model: the same lines, formatted.
formatSource(text) == [k \in 1..Len(text) |-> [text[k] EXCEPT !.gofmt = TRUE]]
\* A transform that returns the error of format.Source as well.
transformFailsOnFormat(execErr, formatErr) == execErr \/ formatErr
\* Lines 334-336, 345: transform returns the error of program.Execute, and
\* nil after line 340 whatever format.Source returned.
transformFails(execErr, formatErr) == execErr

\* Lines 592-595 and 332-346: p.transform() executes the template and
\* formats the text; main answers an error with Warn and os.Exit(1).
Transform ==
  /\ mpc = "transform"
  /\ \E execErr \in BOOLEAN, formatErr \in BOOLEAN :
       /\ execErr => ~formatErr
       /\ xf' = [done |-> TRUE, execErr |-> execErr, formatErr |-> formatErr,
                 raw |-> IF execErr THEN <<>> ELSE Render(prog)]
       /\ IF transformFails(execErr, formatErr)
          THEN /\ Exit(1)
               /\ UNCHANGED <<rendered, Src>>
          ELSE /\ rendered' = TRUE
               /\ Src' = IF formatErr THEN Render(prog) ELSE formatSource(Render(prog))
               /\ mpc' = "run"
               /\ UNCHANGED <<exitCode, exitAt>>
  /\ UNCHANGED <<origArgs, osArgs, fl, positional, prog, toolRuns>>
  /\ UNCHANGED <<runVars, drvVars, preVars>>

\* Line 596: os.Exit(p.run()); run returns 0 or 1 (lines 376-485).
RunProg ==
  /\ mpc = "run"
  /\ toolRuns' = toolRuns + 1
  /\ \E code \in {0, 1} : Exit(code)
  /\ UNCHANGED <<origArgs, osArgs, fl, positional, prog, rendered, Src, xf>>
  /\ UNCHANGED <<runVars, drvVars, preVars>>

MainNext ==
  \/ Decluster
  \/ FlagParse
  \/ Help
  \/ Derive
  \/ Transform
  \/ RunProg

\* golf's main() on a command line.
SpecMain == MainInit /\ [][MainNext]_vars

\* ----------------------------------------------------------- golf: Prog.run
\* Largest exit status the generated program ends with.
MaxExit == 3

FmtName == <<"f", "m", "t">>
\* The import lists the driver is run with: without and with a module path.
ImportLists == { <<FmtName>>, <<FmtName, <<"x", "/", "y">>>> }

\* Lines 423-429: an import with a "/" needs go mod tidy.
needTidy(imports) == \E i \in 1..Len(imports) : Contains(imports[i], "/")

DriverInit ==
  /\ RunIdle
  /\ MainIdle
  /\ PreludeIdle
  /\ dp \in [Keep : BOOLEAN, Goimports : BOOLEAN, Imports : ImportLists]
  /\ dpc = "mkdir"
  /\ dlog = <<>>
  /\ tmpdir = FALSE
  /\ cleanup = FALSE
  /\ removeTries = 0
  /\ childCode = -1
  /\ ret = -1
  /\ golfExit = -1

\* A return of run(): the deferred function, when registered, runs next.
Return(v) ==
  /\ ret' = v
  /\ dpc' = IF cleanup THEN "cleanup" ELSE "returned"

\* A step that either fails, and makes run() return 1, or leads to next.
StepOrFail(name, ok, next) ==
  /\ dlog' = Append(dlog, [step |-> name, ok |-> ok])
  /\ IF ok THEN dpc' = next /\ UNCHANGED ret ELSE Return(1)

\* Lines 377-381: os.MkdirTemp.
MkdirTemp ==
  /\ dpc = "mkdir"
  /\ \E ok \in BOOLEAN :
       /\ StepOrFail("mkdir", ok, "abs")
       /\ tmpdir' = ok
  /\ UNCHANGED <<dp, cleanup, removeTries, childCode, golfExit>>
  /\ UNCHANGED <<runVars, mainVars, preVars>>

\* Lines 382-396: filepath.Abs, then the deferred RemoveAll unless -k.
AbsAndDefer ==
  /\ dpc = "abs"
  /\ \E ok \in BOOLEAN :
       /\ dlog' = Append(dlog, [step |-> "abs", ok |-> ok])
       /\ IF ok
          THEN /\ cleanup' = ~dp.Keep
               /\ dpc' = "getwd"
               /\ UNCHANGED ret
          ELSE /\ Return(1)
               /\ UNCHANGED cleanup
  /\ UNCHANGED <<dp, tmpdir, removeTries, childCode, golfExit>>
  /\ UNCHANGED <<runVars, mainVars, preVars>>

\* Lines 398-407: os.Getwd and os.Chdir(tmpdir).
EnterTmp ==
  /\ dpc = "getwd"
  /\ \E ok \in BOOLEAN : StepOrFail("chdir", ok, "write")
  /\ UNCHANGED <<dp, tmpdir, cleanup, removeTries, childCode, golfExit>>
  /\ UNCHANGED <<runVars, mainVars, preVars>>

\* Lines 409-413: os.WriteFile(golfe.go).
WriteSource ==
  /\ dpc = "write"
  /\ \E ok \in BOOLEAN :
       StepOrFail("write", ok, IF dp.Goimports THEN "goimports"
                               ELSE IF needTidy(dp.Imports) THEN "modinit" ELSE "gomod")
  /\ UNCHANGED <<dp, tmpdir, cleanup, removeTries, childCode, golfExit>>
  /\ UNCHANGED <<runVars, mainVars, preVars>>

\* Lines 415-421: goimports -w . when -g was given.
Goimports ==
  /\ dpc = "goimports"
  /\ \E ok \in BOOLEAN :
       StepOrFail("goimports", ok, IF needTidy(dp.Imports) THEN "modinit" ELSE "gomod")
  /\ UNCHANGED <<dp, tmpdir, cleanup, removeTries, childCode, golfExit>>
  /\ UNCHANGED <<runVars, mainVars, preVars>>

\* Lines 431-435: go mod init.
ModInit ==
  /\ dpc = "modinit"
  /\ \E ok \in BOOLEAN : StepOrFail("modinit", ok, "modtidy")
  /\ UNCHANGED <<dp, tmpdir, cleanup, removeTries, childCode, golfExit>>
  /\ UNCHANGED <<runVars, mainVars, preVars>>

\* Lines 436-439: go mod tidy.
ModTidy ==
  /\ dpc = "modtidy"
  /\ \E ok \in BOOLEAN : StepOrFail("modtidy", ok, "build")
  /\ UNCHANGED <<dp, tmpdir, cleanup, removeTries, childCode, golfExit>>
  /\ UNCHANGED <<runVars, mainVars, preVars>>

\* Lines 440-446: go.mod written directly; a failure is printed and run goes on.
WriteGoMod ==
  /\ dpc = "gomod"
  /\ \E ok \in BOOLEAN :
       /\ dlog' = Append(dlog, [step |-> "gomod", ok |-> ok])
       /\ dpc' = "build"
  /\ UNCHANGED <<dp, tmpdir, cleanup, removeTries, childCode, ret, golfExit>>
  /\ UNCHANGED <<runVars, mainVars, preVars>>

\* Lines 465-470: go build.
Build ==
  /\ dpc = "build"
  /\ \E ok \in BOOLEAN : StepOrFail("build", ok, "chdirback")
  /\ UNCHANGED <<dp, tmpdir, cleanup, removeTries, childCode, golfExit>>
  /\ UNCHANGED <<runVars, mainVars, preVars>>

\* Lines 472-475: back to the original directory.
ChdirBack ==
  /\ dpc = "chdirback"
  /\ \E ok \in BOOLEAN : StepOrFail("chdirback", ok, "run")
  /\ UNCHANGED <<dp, tmpdir, cleanup, removeTries, childCode, golfExit>>
  /\ UNCHANGED <<runVars, mainVars, preVars>>

\* What run() would return if it passed the child's status on.
RunResultPassThrough(code) == code
\* Lines 349-361 and 477-484: do() returns cmd.Run's error, which is an
\* *exec.ExitError for every non-zero status; run() then returns 1.
RunResult(code) == IF code = 0 THEN 0 ELSE 1

\* Lines 477-484: the generated program runs and ends with some status.
RunChild ==
  /\ dpc = "run"
  /\ \E code \in 0..MaxExit :
       /\ childCode' = code
       /\ dlog' = Append(dlog, [step |-> "run", ok |-> code = 0])
       /\ Return(RunResult(code))
  /\ UNCHANGED <<dp, tmpdir, cleanup, removeTries, golfExit>>
  /\ UNCHANGED <<runVars, mainVars, preVars>>

\* Lines 390-395: the deferred os.RemoveAll; a failure is only reported.
Cleanup ==
  /\ dpc = "cleanup"
  /\ \E ok \in BOOLEAN : tmpdir' = ~ok
  /\ removeTries' = removeTries + 1
  /\ dpc' = "returned"
  /\ UNCHANGED <<dp, dlog, cleanup, childCode, ret, golfExit>>
  /\ UNCHANGED <<runVars, mainVars, preVars>>

\* Line 596: os.Exit(p.run()).
OsExit ==
  /\ dpc = "returned"
  /\ golfExit' = ret
  /\ dpc' = "exited"
  /\ UNCHANGED <<dp, dlog, tmpdir, cleanup, removeTries, childCode, ret>>
  /\ UNCHANGED <<runVars, mainVars, preVars>>

DriverNext ==
  \/ MkdirTemp
  \/ AbsAndDefer
  \/ EnterTmp
  \/ WriteSource
  \/ Goimports
  \/ ModInit
  \/ ModTidy
  \/ WriteGoMod
  \/ Build
  \/ ChdirBack
  \/ RunChild
  \/ Cleanup
  \/ OsExit

\* Prog.run() and the exit of golf.
SpecDriver == DriverInit /\ [][DriverNext]_vars

\* ------------------------------------------------- prelude: pure functions
\* Most fields of a line, and the largest |n| Field is called with.
MaxFields == 2
MaxN == 4
\* Longest input of GSplit, in characters.
MaxInput == 3

\* prelude.OFS, line 46.
OFS == <<SP>>
FieldWords == { <<"a">>, <<"b", "c">> }
FieldLists == SeqsUpTo(FieldWords, MaxFields)
\* The names and patterns BackupName is called with.
PreNames == FileNames \cup { <<"d", "/", "f">>, <<STAR>> }
PrePatterns == Patterns \cup { <<STAR, ".", STAR>> }
\* The separators and inputs GSplit is called with.
Separators ==
  { <<SP>>, <<>>, <<",">>, <<SLASH>>, <<",", ",">>, <<"a", SLASH>>,
    <<SLASH, SLASH>>, <<SLASH, ",", SLASH>>, <<SLASH, ",", "+", SLASH>>,
    <<SLASH, "(", SLASH>> }
SplitInputs == SeqsUpTo({"a", ",", SP, SLASH}, MaxInput)

RECURSIVE Join(_, _)
\* strings.Join
Join(ss, sep) ==
  IF ss = <<>> THEN <<>>
  ELSE IF Len(ss) = 1 THEN ss[1]
  ELSE ss[1] \o sep \o Join(Tail(ss), sep)

\* Field without the n-- of line 181: positive indexes taken as 0-based.
FieldZeroBased(fields, warnings, n) ==
  IF n = 0 THEN [ret |-> Join(fields, OFS), warned |-> 0]
  ELSE LET k == IF n < 0 THEN Len(fields) + n ELSE n IN
    IF k < 0 \/ k > Len(fields) - 1
    THEN [ret |-> <<>>, warned |-> IF warnings THEN 1 ELSE 0]
    ELSE [ret |-> fields[k + 1], warned |-> 0]
\* prelude.Field, lines 174-190; k is the 0-based index of the code.
Field(fields, warnings, n) ==
  IF n = 0 THEN [ret |-> Join(fields, OFS), warned |-> 0]
  ELSE LET k == IF n < 0 THEN Len(fields) + n ELSE n - 1 IN
    IF k < 0 \/ k > Len(fields) - 1
    THEN [ret |-> <<>>, warned |-> IF warnings THEN 1 ELSE 0]
    ELSE [ret |-> fields[k + 1], warned |-> 0]

PreludeInit ==
  /\ RunIdle
  /\ MainIdle
  /\ DriverIdle
  /\ Fields \in FieldLists
  /\ Warnings \in BOOLEAN
  /\ ppc = "ready"
  /\ call = <<>>
  /\ warned = 0
  /\ pexit = -1

\* A call of Field(n), lines 174-190.
CallField ==
  /\ ppc = "ready"
  /\ \E n \in (-MaxN)..MaxN :
       LET r == Field(Fields, Warnings, n) IN
       /\ call' = [fn |-> "Field", n |-> n, ret |-> r.ret]
       /\ warned' = warned + r.warned
  /\ ppc' = "called"
  /\ UNCHANGED <<Fields, Warnings, pexit>>
  /\ UNCHANGED <<runVars, mainVars, drvVars>>

\* A call of BackupName(orig, ext), lines 197-202.
CallBackupName ==
  /\ ppc = "ready"
  /\ \E orig \in PreNames, ext \in PrePatterns :
       call' = [fn |-> "BackupName", orig |-> orig, ext |-> ext,
                ret |-> BackupName(orig, ext)]
  /\ ppc' = "called"
  /\ UNCHANGED <<Fields, Warnings, warned, pexit>>
  /\ UNCHANGED <<runVars, mainVars, drvVars>>

\* A call of GSplit(sep, input), lines 154-167; Die exits with status 1.
CallGSplit ==
  /\ ppc = "ready"
  /\ \E sep \in Separators, input \in SplitInputs :
       LET r == GSplit(sep, input) IN
       /\ call' = [fn |-> "GSplit", sep |-> sep, input |-> input, ret |-> r.ret]
       /\ ppc' = IF r.died THEN "died" ELSE "called"
       /\ pexit' = IF r.died THEN 1 ELSE pexit
  /\ UNCHANGED <<Fields, Warnings, warned>>
  /\ UNCHANGED <<runVars, mainVars, drvVars>>

PreludeNext ==
  \/ CallField
  \/ CallBackupName
  \/ CallGSplit

\* The prelude's functions called on every input of the model.
SpecPrelude == PreludeInit /\ [][PreludeNext]_vars

\* ------------------------------------------------------------------ claims
RECURSIVE Flatten(_)
\* The concatenation of a sequence of strings.
Flatten(ss) == IF ss = <<>> THEN <<>> ELSE Head(ss) \o Flatten(Tail(ss))

\* The data of the writes that satisfy Test, in the order they were made.
IsDefaultOut(e) == e.via \in {"auto", "print"}
IsAuto(e) == e.via = "auto"
Autos == SelectSeq(wlog, IsAuto)
DataOf(es) == Flatten([j \in 1..Len(es) |-> es[j].data])
\* What Print and the auto-print wrote while input i was being processed.
WrittenFor(i) == LET Mine(e) == IsDefaultOut(e) /\ e.idx = i IN DataOf(SelectSeq(wlog, Mine))

\* The run was started in in-place mode with a backup pattern and has files.
InPlaceBackupRun == p.FlgN /\ GolfInPlace /\ GolfInPlaceBak # <<>> /\ pc # "begin"

\* C1: in in-place mode with a backup pattern, after a run that ends without a
\* fatal error, for every input that was processed the backup name holds the
\* input's content from before the run and the original name holds exactly what
\* Print and the auto-print wrote while that input was processed.
C1_BackupHoldsOriginal ==
  (InPlaceBackupRun /\ pc = "done") =>
    \A i \in 1..fileIdx :
      LET name == golfFilenames[i]
          bak == BackupName(name, GolfInPlaceBak)
      IN /\ dir[bak] # 0
         /\ inode[dir[bak]] = fs0[name]
         /\ dir[name] # 0
         /\ inode[dir[name]] = WrittenFor(i)

\* C2: when the rename of the input to its backup name fails, the program has
\* died with a non-zero status and the error on stderr, no replacement was
\* created and the input still holds its content.
C2_RenameFailureIsFatal ==
  \A i \in renameFailed :
    /\ pc = "died"
    /\ status = 1
    /\ Contains(stderr, "rename")
    /\ created[i] = 0
    /\ dir[golfFilenames[i]] # 0
    /\ (i = 1 => inode[dir[golfFilenames[i]]] = fs0[golfFilenames[i]])

\* The content of a file with every line terminated: a final unterminated line
\* gets a terminator, an empty file stays empty.
Terminated(c) == IF c = <<>> \/ c[Len(c)] = NL THEN c ELSE c \o <<NL>>

C7_LineNumPerFile ==
  \A j \in 1..Len(seen) :
    /\ seen[j].num = seen[j].ord
    /\ seen[j].file = golfFilenames[seen[j].idx]
    /\ (j > 1 /\ seen[j - 1].idx # seen[j].idx) => seen[j].num = 1

C7_Witness ==
  /\ Len(seen) = 3
  /\ seen[2].idx = 1 /\ seen[2].num = 2
  /\ seen[3].idx = 2 /\ seen[3].num = 1 /\ seen[3].file = F2

\* C8: in in-place mode every write of Print and of the auto-print made for
\* input k goes to the replacement created for input k, the writes that reach
\* standard output are the snippet's explicit ones, and while the lines of an
\* input are read the current output is that input's replacement.
C8_OutputFollowsFile ==
  (p.FlgN /\ GolfInPlace) =>
    /\ \A j \in 1..Len(wlog) :
         /\ (IsDefaultOut(wlog[j]) /\ wlog[j].idx >= 1) =>
              (wlog[j].dst # 0 /\ wlog[j].dst = created[wlog[j].idx])
         /\ wlog[j].dst = 0 => wlog[j].via = "stdout"
    /\ pc = "scan" => (CurOut # 0 /\ CurOut = created[fileIdx])

C8_Witness ==
  /\ p.FlgN /\ GolfInPlace /\ pc = "done"
  /\ p.RawSrc = "upper_tee" /\ p.FlgP
  /\ golfFilenames = <<F1, F2>>
  /\ Len(created) = 2
  /\ created[1] # 0 /\ created[2] # 0 /\ created[1] # created[2]
  /\ Len(stdout) > 0
  /\ \E j \in 1..Len(wlog) : wlog[j].via = "auto" /\ wlog[j].idx = 1 /\ wlog[j].dst = created[1]
  /\ \E j \in 1..Len(wlog) : wlog[j].via = "auto" /\ wlog[j].idx = 2 /\ wlog[j].dst = created[2]

\* The program ended in GSplit, on an expression that does not compile.
SplitDied == pc = "died" /\ stderr # <<>> /\ stderr[Len(stderr)] = "split"
\* What Print writes for a Line value.
Printed(line) == IF p.FlgL THEN line \o <<NL>> ELSE line

\* C9: with auto-print on, the lines read so far have each been printed once,
\* in order, with the value Line had when the snippet ended, except the last
\* one while it is pending; nothing is pending when the snippet runs without
\* line mode, when the -E blocks run or after them; a snippet that writes once
\* per line has its writes alternate with the auto-prints; with auto-print
\* off nothing is printed automatically. A line on which GSplit ends the
\* program never reaches the snippet and is not counted.
C9_AutoPrintOnce ==
  /\ ~p.FlgP => (Autos = <<>> /\ ~golfPDirty)
  /\ (p.FlgP /\ ~SplitDied) =>
       /\ Len(Autos) = Len(lineLog) - (IF golfPDirty THEN 1 ELSE 0)
       /\ \A j \in 1..Len(Autos) :
            /\ Autos[j].data = Printed(lineLog[j].final)
            /\ Autos[j].idx = lineLog[j].idx
       /\ p.RawSrc # "empty" =>
            \A j \in 1..Len(wlog) : IsAuto(wlog[j]) <=> (j % 2 = 0)
  /\ pc \in {"begin", "snippet", "end", "done"} => ~golfPDirty

C9_Witness ==
  /\ p.FlgP /\ pc = "done" /\ p.RawSrc = "upper_tee"
  /\ Len(golfFilenames) = 2
  /\ fileIdx = 1
  /\ Len(lineLog) = 2
  /\ Len(Autos) = 2
  /\ Autos[2].data = <<"A", NL>>

\* The directory as it was before the run.
InitialDir ==
  [n \in AllNames |->
     IF fs0[n] = Absent THEN 0
     ELSE IF n = F1 THEN 1 ELSE IF n = F2 THEN 2 ELSE 3]

\* C19: a line-mode program without positional arguments reads the standard
\* input pseudo-file and nothing else, with in-place mode and the backup
\* pattern off whatever -i or -I said: no name is removed, renamed or created,
\* no file content changes, and every write goes to standard output.
C19_StdinForcesInPlaceOff ==
  (p.FlgN /\ p.RawArgs = <<>> /\ pc \notin {"off", "begin"}) =>
    /\ golfFilenames = <<DevStdin>>
    /\ ~GolfInPlace /\ GolfInPlaceBak = <<>>
    /\ fileIdx <= 1
    /\ pc \in {"end", "done"} => (fileIdx = 1 /\ Filename = DevStdin)
    /\ dir = InitialDir
    /\ Len(inode) = 3
    /\ \A n \in AllNames : dir[n] # 0 => inode[dir[n]] = fs0[n]
    /\ \A k \in 1..Len(created) : created[k] = 0
    /\ \A k \in 1..Len(wlog) : wlog[k].dst = 0
    /\ CurOut = 0

C19_Witness ==
  /\ pc = "done"
  /\ p.FlgP /\ p.InPlace /\ p.InPlaceBak # <<>> /\ p.RawArgs = <<>>
  /\ fs0[DevStdin] = <<"a", NL>>
  /\ stdout = <<"a", NL>>

RECURSIVE NumLines(_)
\* The number of lines the scanner finds in data.
NumLines(data) ==
  IF ScanLines(data).ok THEN 1 + NumLines(ScanLines(data).rest) ELSE 0
RECURSIVE TotalLines(_)
TotalLines(names) ==
  IF names = <<>> THEN 0 ELSE NumLines(fs0[Head(names)]) + TotalLines(Tail(names))
RECURSIVE CountIn(_, _)
CountIn(tr, e) ==
  IF tr = <<>> THEN 0 ELSE (IF Head(tr) = e THEN 1 ELSE 0) + CountIn(Tail(tr), e)
BlockEvents(blocks) == {blocks[k] : k \in 1..Len(blocks)}
StartsWith(tr, a) == Len(tr) >= Len(a) /\ SubSeq(tr, 1, Len(a)) = a
EndsWith(tr, a) == Len(tr) >= Len(a) /\ SubSeq(tr, Len(tr) - Len(a) + 1, Len(tr)) = a

\* C20: the begin-blocks are the first things to run, each once and in order,
\* before any input is opened; in a run that ends normally the end-blocks are
\* the last things to run, each once and in order, after the final flush and
\* close; between them the snippet runs once without line mode, and with line
\* mode once per line read, which for a snippet that falls through is once
\* per line of the inputs.
C20_BlocksOnceSnippetPerLine ==
  LET n == Len(trace) IN
  /\ pc \notin {"off", "begin"} =>
       /\ StartsWith(trace, BeginSrc)
       /\ \A k \in (Len(BeginSrc) + 1)..n : trace[k] \notin BlockEvents(BeginSrc)
  /\ pc # "done" => \A k \in 1..n : trace[k] \notin BlockEvents(EndSrc)
  /\ pc = "done" =>
       /\ EndsWith(trace, EndSrc)
       /\ \A k \in 1..(n - Len(EndSrc)) : trace[k] \notin BlockEvents(EndSrc)
       /\ ~p.FlgN => trace = BeginSrc \o <<"snippet">> \o EndSrc
       /\ p.FlgN =>
            /\ EndsWith(trace, <<"close">> \o EndSrc)
            /\ CountIn(trace, "close") = 1
            /\ ~golfPDirty /\ CurOut = 0
            /\ CountIn(trace, "snippet") = Len(seen)
            /\ (p.RawSrc = "empty" /\ ~GolfInPlace) =>
                 CountIn(trace, "snippet") = TotalLines(golfFilenames)

C20_Witness ==
  /\ pc = "done"
  /\ p.RawSrc = "empty" /\ ~p.InPlace
  /\ golfFilenames = <<F1, F2>>
  /\ trace = BeginSrc \o <<"open", "snippet", "snippet", "open", "snippet", "close">> \o EndSrc

\* C21: at most one input is open at any moment, and none is open when the
\* end-blocks run.
C21_AtMostOneInputOpen ==
  /\ Cardinality(openInputs) <= 1
  /\ pc \in {"end", "done"} => openInputs = {}

\* C22: a failed open, remove, create or read ends the program at once with a
\* non-zero status: the step that fails leads to the exit with no line
\* processed, no input opened and no block run in between (a failed open is
\* preceded by the flush of the previous input's pending line, nothing else
\* is written), it is the only failure of the run, and nothing happens after
\* the exit.
C22_FailureIsFatalAtOnce ==
  /\ [](faults # <<>> =>
          /\ pc = "died" /\ status = 1
          /\ Len(faults) = 1
          /\ Len(stderr) = 1 /\ stderr[1] = faults[1].step
          /\ faults[1].idx = fileIdx /\ Len(created) = fileIdx
          /\ \A k \in 1..Len(trace) : trace[k] \notin BlockEvents(EndSrc))
  /\ [][/\ faults' # faults =>
             /\ seen' = seen /\ lineLog' = lineLog
             /\ \/ wlog' = wlog
                \/ /\ faults'[1].step = "open"
                   /\ Len(wlog') = Len(wlog) + 1
                   /\ SubSeq(wlog', 1, Len(wlog)) = wlog
                   /\ IsAuto(wlog'[Len(wlog')])
        /\ pc # "died"]_vars

C22_Witness ==
  /\ pc = "died" /\ status = 1
  /\ faults = <<[step |-> "read", idx |-> 2]>>
  /\ Len(seen) >= 1

\* The steps logged for input k, the snippet's break aside.
StepsOf(k) ==
  LET Mine(e) == e.idx = k /\ e.op # "breakFile" IN
  [j \in 1..Len(SelectSeq(steps, Mine)) |-> SelectSeq(steps, Mine)[j].op]
\* The order of the steps at a file boundary of the in-place scaffold.
BoundaryOrder ==
  <<"flush", "close", "open",
    IF GolfInPlaceBak = <<>> THEN "remove" ELSE "rename", "create", "reset">>
IsPrefixOf(a, b) == Len(a) <= Len(b) /\ SubSeq(b, 1, Len(a)) = a

\* C23: in the in-place scaffold the steps for every input are, in this order,
\* flush, close, open, remove or rename, create, reset of the line counter,
\* input by input; the original is removed, renamed or truncated only while
\* it is open for reading; the pending line of an input is written to that
\* input's replacement; after the File loop come a flush and a close, and the
\* current output is standard output when the end-blocks run.
C23_BoundaryOrder ==
  (p.FlgN /\ GolfInPlace /\ pc \notin {"off", "begin"}) =>
    /\ \A k \in 1..fileIdx : IsPrefixOf(StepsOf(k), BoundaryOrder)
    /\ \A k \in 1..(fileIdx - 1) : StepsOf(k) = BoundaryOrder
    /\ \A i \in 1..Len(steps), j \in 1..Len(steps) :
         (i < j /\ steps[j].idx # 0) => (steps[i].idx # 0 /\ steps[i].idx <= steps[j].idx)
    /\ pc \in {"inplace", "create"} =>
         (golfFile # 0 /\ fileIdx \in openInputs /\ CurOut = 0)
    /\ pc = "inplace" => golfFile = dir[Filename]
    /\ pc = "scan" => (StepsOf(fileIdx) = BoundaryOrder /\ CurOut = created[fileIdx])
    /\ \A j \in 1..Len(wlog) :
         IsAuto(wlog[j]) => wlog[j].dst = created[wlog[j].idx]
    /\ pc \in {"end", "done"} =>
         /\ CurOut = 0 /\ ~golfPDirty
         /\ StepsOf(0) = (IF pc = "end" THEN <<"flush", "close">>
                          ELSE <<"flush", "close", "end">>)

C23_Witness ==
  /\ p.FlgN /\ GolfInPlace /\ GolfInPlaceBak # <<>> /\ pc = "done"
  /\ p.FlgP /\ fileIdx = 2
  /\ StepsOf(1) = BoundaryOrder /\ StepsOf(2) = BoundaryOrder
  /\ \E j \in 1..Len(wlog) : IsAuto(wlog[j]) /\ wlog[j].idx = 1
  /\ CurOut = 0

RECURSIVE Token(_, _)
\* The j-th line of data, without its terminator.
Token(data, j) ==
  IF j = 1 THEN ScanLines(data).token ELSE Token(ScanLines(data).rest, j - 1)
\* The snippet left the File loop by break File while in the first input.
BrokeInFirst == \E j \in 1..Len(steps) : steps[j].op = "breakFile" /\ steps[j].idx = 1

\* C24: with auto-print on, after break File on line k of the first input the
\* run ends normally with exactly the first k lines of that input read and
\* auto-printed, line k included, each once and in order, no other input
\* opened, and the end-blocks run once after the final flush and close.
C24_BreakFilePrintsFirstLines ==
  (p.FlgP /\ BrokeInFirst) =>
    /\ pc \in {"after", "end", "done"}
    /\ fileIdx = 1 /\ Len(created) = 1
    /\ LineNum = Len(lineLog) /\ Len(seen) = LineNum /\ LineNum >= 1
    /\ LineNum <= NumLines(fs0[golfFilenames[1]])
    /\ \A j \in 1..LineNum :
         lineLog[j].text = Token(fs0[golfFilenames[1]], j) \o (IF p.FlgL THEN <<>> ELSE <<NL>>)
    /\ pc \in {"end", "done"} =>
         /\ Len(Autos) = LineNum
         /\ \A j \in 1..LineNum :
              /\ Autos[j].data = lineLog[j].final \o (IF p.FlgL THEN <<NL>> ELSE <<>>)
              /\ Autos[j].dst = created[1]
         /\ created[1] # 0 => inode[created[1]] = WrittenFor(1)
    /\ pc = "done" =>
         /\ EndsWith(trace, <<"snippet", "close">> \o EndSrc)
         /\ CountIn(trace, "open") = 1
         /\ CountIn(trace, EndSrc[1]) = 1

C24_Witness ==
  /\ p.FlgP /\ BrokeInFirst /\ pc = "done"
  /\ ~GolfInPlace /\ p.RawSrc = "upper_tee"
  /\ golfFilenames = <<F1, F2>>
  /\ fs0[F1] = <<NL, "a">>
  /\ LineNum = 1
  /\ ~p.FlgL /\ DataOf(Autos) = <<NL>>

\* What the snippet wrote with Print, in order.
Prints == SelectSeq(wlog, LAMBDA w : w.via = "print")

SameFileTwice ==
  /\ p.FlgN /\ GolfInPlace /\ GolfInPlaceBak # <<>>
  /\ Len(golfFilenames) = 2 /\ golfFilenames[1] = golfFilenames[2]
  /\ fileIdx = 2
  /\ pc = "done" /\ renameFailed = {}

\* C28: in in-place mode with a backup pattern and the same name given twice,
\* the second rename replaces the backup of the first pass without an error:
\* after the run the backup name holds what the first pass wrote, the name holds
\* what the second pass wrote, and the content the file had before the run
\* is reachable under no name.
C28_SameFileTwiceLosesOriginal ==
  SameFileTwice =>
    LET f == golfFilenames[1]
        bak == BackupName(f, GolfInPlaceBak)
    IN /\ status = 0 /\ stderr = <<>> /\ faults = <<>>
       /\ Len(created) = 2
       /\ dir[bak] = created[1] /\ inode[dir[bak]] = WrittenFor(1)
       /\ dir[f] = created[2] /\ inode[dir[f]] = WrittenFor(2)
       /\ \A n \in AllNames : dir[n] # InitialDir[f]
       /\ \A k \in 1..Len(seen) :
            seen[k].idx = 2 => \E j \in 1..Len(lineLog) : lineLog[j].idx = 1

C28_Witness ==
  /\ SameFileTwice
  /\ golfFilenames = <<F1, F1>> /\ fs0[F1] = <<"a", NL>>
  /\ p.FlgP /\ p.RawSrc = "upper_tee"
  /\ GolfInPlaceBak = <<".", "b", "a", "k">>
  /\ inode[dir[<<"f", ".", "b", "a", "k">>]] = <<"A", NL>>
  /\ \A n \in AllNames : dir[n] # 1

\* The character a separator of the model stands for, when it is a literal
\* or a regular expression of one literal character.
SepChar == IF Len(IFS) = 1 THEN IFS[1] ELSE IFS[2]
SepCompiles == IFS # <<SLASH, "(", SLASH>>
LastOf(fs) == fs[Len(fs)]
EndsWithNL(f) == f # <<>> /\ f[Len(f)] = NL
\* The fields are those of the captured Line: with the default separator the
\* runs of non-whitespace, else the pieces between the separators.
FieldsOfLine(e) ==
  IF IFS = <<SP>>
  THEN /\ Flatten(e.fields) = SelectSeq(e.text, LAMBDA c : ~IsSpace(c))
       /\ \A k \in 1..Len(e.fields) :
            e.fields[k] # <<>> /\ \A i \in 1..Len(e.fields[k]) : ~IsSpace(e.fields[k][i])
  ELSE /\ Join(e.fields, <<SepChar>>) = e.text
       /\ \A k \in 1..Len(e.fields) : ~Contains(e.fields[k], SepChar)
AutoSplitLines == p.FlgA /\ pc # "begin"

\* C30 as stated: with auto-split on, Fields is GSplit(IFS, Line) of the line
\* just captured, on every line; with a literal or regular-expression
\* separator and the line-buffering flag off the last field of every line
\* ends with "\n"; with the default separator no field contains it.
C30_FieldsFromLine ==
  AutoSplitLines =>
    \A j \in 1..Len(lineLog) :
      /\ FieldsOfLine(lineLog[j])
      /\ (IFS # <<SP>> /\ ~p.FlgL) =>
           (lineLog[j].fields # <<>> /\ EndsWithNL(LastOf(lineLog[j].fields)))
      /\ IFS = <<SP>> => \A k \in 1..Len(lineLog[j].fields) : ~Contains(lineLog[j].fields[k], NL)

\* C30, amended: the same, the last field ending with "\n" only when the
\* separator does not match "\n"; when it does, the last field is empty and
\* no field contains "\n". An expression that does not compile ends the
\* program with status 1 on the first line, before the snippet.
C30_FieldsFromLineUnlessSplitOnNL ==
  AutoSplitLines =>
    /\ \A j \in 1..Len(lineLog) :
         /\ SepCompiles
         /\ FieldsOfLine(lineLog[j])
         /\ (IFS # <<SP>> /\ ~p.FlgL /\ SepChar # NL) =>
              (lineLog[j].fields # <<>> /\ EndsWithNL(LastOf(lineLog[j].fields)))
         /\ (IFS # <<SP>> /\ ~p.FlgL /\ SepChar = NL) =>
              /\ Len(lineLog[j].fields) = 2 /\ LastOf(lineLog[j].fields) = <<>>
              /\ ~Contains(lineLog[j].fields[1], NL)
         /\ IFS = <<SP>> => \A k \in 1..Len(lineLog[j].fields) : ~Contains(lineLog[j].fields[k], NL)
    /\ (lineLog # <<>> /\ pc \in {"scan", "file", "after", "end", "done"}) =>
         Fields = LastOf(lineLog).fields
    /\ (~SepCompiles /\ LineNum > 0) =>
         (pc = "died" /\ status = 1 /\ LineNum = 1 /\ lineLog = <<>> /\ trace = BeginSrc \o <<"open">>)

C30_Witness ==
  /\ p.FlgA /\ ~p.FlgL /\ pc = "done"
  /\ IFS = <<SLASH, "a", SLASH>>
  /\ golfFilenames = <<F1>> /\ fs0[F1] = <<NL, "a">>
  /\ Len(lineLog) = 2
  /\ lineLog[1].fields = << <<NL>> >>
  /\ lineLog[2].fields = << <<>>, <<NL>> >>
  /\ Fields = << <<>>, <<NL>> >>

\* The steps of the scaffold that touch a file.
FileSteps == {"open", "remove", "rename", "create"}

FirstDashDash(args) == IndexOf(args, DashDash)

\* C3: when the command line contains "--", decluster's output is the expansion
\* of what precedes the "--", then the "--" and what follows it unchanged, and
\* the positional arguments flag.Parse reports are those that followed the "--".
C3_DashDashPassThrough ==
  LET t == FirstDashDash(origArgs) IN
  (t > 0 /\ mpc \in {"parse", "derive", "transform", "run"}) =>
    /\ osArgs = decluster(SubSeq(origArgs, 1, t - 1)).res \o SubSeq(origArgs, t, Len(origArgs))
    /\ mpc # "parse" => positional = SubSeq(origArgs, t + 1, Len(origArgs))

\* The flags of the model that take no value.
PlainFlags == { <<"-", "n">>, <<"-", "p">>, <<"-", "a">>, <<"-", "i">> }
\* The arguments of the model that end with a flag that needs a value.
WantValue == { <<"-", "e">>, <<"-", "F">>, <<"-", "I">>, <<"-", "p", "e">> }
PlainBefore(args, t) == \A j \in 2..(t - 1) : args[j] \in PlainFlags

\* A value-taking letter in non-final position of a cluster, with no "--" before it.
ClusterError(args) ==
  \E t \in 2..Len(args) :
    /\ args[t] = <<"-", "e", "n">>
    /\ \A j \in 2..(t - 1) : args[j] # DashDash
\* An unknown flag, or a flag whose value is missing, after plain flags only.
ParseError(args) ==
  \/ \E t \in 2..Len(args) : PlainBefore(args, t) /\ args[t] = <<"-", "x">>
  \/ Len(args) >= 2 /\ PlainBefore(args, Len(args)) /\ args[Len(args)] \in WantValue
UsageError(args) == ClusterError(args) \/ ParseError(args)

C10_ImpliedFlags ==
  mpc \in {"transform", "run"} =>
    /\ prog.FlgA => prog.FlgN
    /\ prog.FlgP => prog.FlgN
    /\ prog.FlgF # <<" ">> => (prog.FlgA /\ prog.FlgN)
    /\ prog.InPlaceBak # <<>> => prog.InPlace

C10_Witness ==
  /\ mpc = "run"
  /\ origArgs = <<Golf, <<"-", "F">>, <<":">>>>
  /\ prog.FlgF = <<":">>
  /\ prog.FlgA /\ prog.FlgN

\* The cluster tokens of the model made only of no-value letters.
BoolClusters == { <<"-", "n", "p">> }
\* The letters of a cluster, each as its own argument.
Letters(tok) == [k \in 1..(Len(tok) - 1) |-> <<"-", tok[k + 1]>>]
RECURSIVE Separate(_)
\* The command line with every no-value cluster before the first "--"
\* written as separate flags.
Separate(args) ==
  IF args = <<>> THEN <<>>
  ELSE IF Head(args) = DashDash THEN args
  ELSE (IF Head(args) \in BoolClusters THEN Letters(Head(args)) ELSE <<Head(args)>>)
       \o Separate(Tail(args))
\* What decluster and flag.Parse make of a command line.
ParseOf(args) ==
  LET d == decluster(args) IN
  IF d.kind # "ok" THEN [kind |-> d.kind, fl |-> Defaults, args |-> <<>>]
  ELSE parseFrom(Tail(d.res), Defaults)
HasBoolCluster(args) ==
  \E t \in 2..Len(args) :
    /\ args[t] \in BoolClusters
    /\ \A j \in 2..(t - 1) : args[j] # DashDash

\* C11: a command line with a cluster of no-value flags is parsed to the same
\* flag values and positional arguments as the command line with each letter
\* of the cluster given as its own argument, and fails when that one fails.
C11_ClusterAsSeparateFlags ==
  LET ref == ParseOf(Separate(origArgs)) IN
  HasBoolCluster(origArgs) =>
    /\ mpc = "derive" =>
         (ref.kind = "ok" /\ fl = ref.fl /\ positional = ref.args)
    /\ (mpc = "exited" /\ exitAt \in {"decluster", "parse"}) => ref.kind # "ok"

\* A token decluster looks at: before the first "--", and starting with "-".
Examined(args, t) ==
  /\ t \in 2..Len(args)
  /\ \A j \in 2..(t - 1) : args[j] # DashDash
  /\ args[t] # DashDash
  /\ args[t] # <<>> /\ args[t][1] = "-"
LongNames == { <<"g", "o", "V", "e", "r">>, <<"h", "e", "l", "p">>,
               <<"B", "E", "G", "I", "N">>, <<"E", "N", "D">> }
NoValueLetters == {"n", "l", "p", "g", "a", "i", "k", "w", "h"}
\* A cluster with a letter, other than its last, that is no boolean short flag.
BadCluster(tok) ==
  /\ Tail(tok) \notin LongNames
  /\ \E k \in 2..(Len(tok) - 1) : tok[k] \notin NoValueLetters
Rejected(args) == \E t \in 2..Len(args) : Examined(args, t) /\ BadCluster(args[t])
RECURSIVE Count(_, _)
Count(args, tok) ==
  IF args = <<>> THEN 0
  ELSE (IF Head(args) = tok THEN 1 ELSE 0) + Count(Tail(args), tok)

\* C12: decluster rejects the command line, exiting before flag.Parse and
\* leaving os.Args as it was, exactly when some examined cluster has a letter
\* other than its last that is no boolean short flag; a token that names a
\* registered long flag is never the reason and is never split.
C12_ClusterAcceptance ==
  mpc # "decluster" =>
    /\ Rejected(origArgs) <=>
         (mpc = "exited" /\ exitAt = "decluster" /\ exitCode = 1 /\ toolRuns = 0
            /\ osArgs = origArgs /\ fl = Defaults)
    /\ (~Rejected(origArgs) /\ DashDash \notin {origArgs[t] : t \in 1..Len(origArgs)}) =>
         \A tok \in {origArgs[t] : t \in 2..Len(origArgs)} :
           (tok # <<>> /\ Tail(tok) \in LongNames) =>
             Count(osArgs, tok) = Count(origArgs, tok)

C12_Witness ==
  /\ origArgs = <<Golf, <<"-", "h", "e", "l", "p">>, <<"-", "n", "p">>, <<"-", "e", "n">>>>
  /\ mpc = "exited" /\ exitAt = "decluster"
  /\ exitCode = 1
  /\ osArgs = origArgs

RECURSIVE Given(_, _)
\* The values a command line of flag/value pairs gives to the flags in names,
\* in the order of appearance.
Given(args, names) ==
  IF args = <<>> THEN <<>>
  ELSE IF Head(args) = <<"-", "n">> THEN Given(Tail(args), names)
  ELSE (IF Head(args) \in names THEN <<args[2]>> ELSE <<>>)
       \o Given(Tail(Tail(args)), names)
BeginNames == { <<"-", "b">>, <<"-", "B", "E", "G", "I", "N">> }
EndNames == { <<"-", "E">>, <<"-", "E", "N", "D">> }
RECURSIVE TextsOf(_, _)
\* The texts of one section of the rendered program, in order.
TextsOf(lines, sec) ==
  IF lines = <<>> THEN <<>>
  ELSE (IF Head(lines).sec = sec THEN <<Head(lines).text>> ELSE <<>>)
       \o TextsOf(Tail(lines), sec)

\* C13: the begin-blocks of the Prog and of the rendered program are the values
\* given through -b and -BEGIN, every occurrence kept, in command-line order
\* across both spellings; likewise the end-blocks for -E and -END.
C13_BlocksAccumulateInOrder ==
  (mpc = "run" /\ origArgs \in ListVectors) =>
    /\ prog.BeginSrc = Given(Tail(origArgs), BeginNames)
    /\ prog.EndSrc = Given(Tail(origArgs), EndNames)
    /\ TextsOf(Src, "begin") = Given(Tail(origArgs), BeginNames)
    /\ TextsOf(Src, "end") = Given(Tail(origArgs), EndNames)

C13_Witness ==
  /\ mpc = "run"
  /\ origArgs = <<Golf, <<"-", "b">>, <<"y">>, <<"-", "B", "E", "G", "I", "N">>, <<"x">>,
                  <<"-", "b">>, <<"y">>>>
  /\ TextsOf(Src, "begin") = << <<"y">>, <<"x">>, <<"y">> >>

Range(q) == {q[k] : k \in 1..Len(q)}

\* C14: the import list of the rendered program is strictly increasing (sorted,
\* no name twice) and, as a set, is the baseline, plus bufio exactly when line
\* mode is on or -M named it, plus every name given through -M.
C14_ImportsSortedUnique ==
  mpc = "run" =>
    LET imps == TextsOf(Src, "import") IN
    /\ \A k \in 1..(Len(imps) - 1) : StrLess(imps[k], imps[k + 1])
    /\ Range(imps) = Range(BaseImports) \cup Range(fl.modules)
                       \cup (IF prog.FlgN THEN {Bufio} ELSE {})
    /\ Bufio \in Range(imps) <=> (prog.FlgN \/ Bufio \in Range(fl.modules))

C14_Witness ==
  /\ mpc = "run"
  /\ origArgs = <<Golf, <<"-", "M">>, <<"m", "a", "t", "h">>, <<"-", "M">>, <<"f", "m", "t">>,
                  <<"-", "M">>, <<"m", "a", "t", "h">>>>
  /\ TextsOf(Src, "import") =
       << <<"f", "m", "t">>, <<"i", "o">>, <<"m", "a", "t", "h">>, <<"o", "s">>,
          <<"r", "e", "g", "e", "x", "p">>, <<"s", "t", "r", "c", "o", "n", "v">>,
          <<"s", "t", "r", "i", "n", "g", "s">> >>

\* C27: transform returns an error when, and only when, executing the template
\* failed, and main then exits with status 1 with no program source; when
\* format.Source fails transform succeeds, main goes on to run the program,
\* and the source is the template output as it was; when both succeed the
\* source is the formatted text.
C27_TransformFailsOnlyOnExecute ==
  xf.done =>
    /\ (exitAt = "transform") <=> xf.execErr
    /\ xf.execErr =>
         /\ mpc = "exited" /\ exitCode = 1
         /\ ~rendered /\ Src = <<>> /\ toolRuns = 0
    /\ ~xf.execErr =>
         /\ mpc \in {"run", "exited"} /\ rendered
         /\ xf.raw = Render(prog)
         /\ mpc = "exited" => (exitAt = "run" /\ toolRuns = 1)
    /\ xf.formatErr => Src = xf.raw
    /\ (~xf.execErr /\ ~xf.formatErr) =>
         /\ Len(Src) = Len(xf.raw)
         /\ \A k \in 1..Len(Src) :
              /\ Src[k].gofmt
              /\ Src[k].sec = xf.raw[k].sec /\ Src[k].text = xf.raw[k].text

C27_Witness ==
  /\ xf.done /\ xf.formatErr
  /\ mpc = "exited" /\ exitAt = "run" /\ exitCode = 0
  /\ Len(Src) >= 2 /\ Src = xf.raw
  /\ \A k \in 1..Len(Src) : ~Src[k].gofmt

\* The flags that take a value, short and long.
ValueNames == { <<"e">>, <<"F">>, <<"I">>, <<"M">>, <<"b">>, <<"E">>,
                <<"B", "E", "G", "I", "N">>, <<"E", "N", "D">>, <<"g", "o", "V", "e", "r">> }
RECURSIVE Declustered(_, _, _)
\* What decluster is to make of the arguments from position t on: a flag
\* token becomes one flag per letter (a long name stays), the value of a
\* value-taking flag and every argument from the first positional one on
\* stay as they are. mode is "flags", "value" or "rest".
Declustered(args, t, mode) ==
  IF t > Len(args) THEN <<>>
  ELSE LET v == args[t] IN
    IF mode = "value" THEN <<v>> \o Declustered(args, t + 1, "flags")
    ELSE IF mode = "rest" \/ Len(v) < 2 \/ v[1] # "-"
         THEN <<v>> \o Declustered(args, t + 1, "rest")
    ELSE IF Tail(v) \in LongNames
         THEN <<v>> \o Declustered(args, t + 1,
                         IF Tail(v) \in ValueNames THEN "value" ELSE "flags")
    ELSE Letters(v) \o Declustered(args, t + 1,
                         IF <<v[Len(v)]>> \in ValueNames THEN "value" ELSE "flags")

\* C29, on command lines without "--": decluster does not crash, and when it
\* does not reject the command line, every value of a value-taking flag and
\* every positional argument is in its output as it was given and where it
\* was given, the flag tokens before it being split into their letters.
C29_DeclusterKeepsNonFlags ==
  (mpc # "decluster" /\ \A t \in 1..Len(origArgs) : origArgs[t] # DashDash) =>
    /\ ~(exitAt = "decluster" /\ exitCode = 2)
    /\ exitAt # "decluster" => osArgs = <<Golf>> \o Declustered(origArgs, 2, "flags")

\* ---- claims about Prog.run()
\* C4 as claimed: golf exits with the status the generated program ended with.
C4_ExitCodeUnchanged ==
  (dpc = "exited" /\ childCode >= 0) => golfExit = childCode

\* C4 as amended: golf exits 0 when the generated program ends with status 0
\* and 1 when it ends with any other status.
C4_ExitCodeZeroOrOne ==
  (dpc = "exited" /\ childCode >= 0) =>
    golfExit = (IF childCode = 0 THEN 0 ELSE 1)

C4_Witness ==
  /\ dpc = "exited"
  /\ childCode = 3
  /\ golfExit = 1

\* The driver's steps in the order the specification lists them.
StepOrder == <<"mkdir", "abs", "chdir", "write", "goimports", "modinit", "modtidy",
               "gomod", "build", "chdirback", "run">>
StepRank(name) == IndexOf(StepOrder, name)

\* C17: the driver's steps are attempted in the listed order, each at most
\* once, and a step that fails is the last one attempted, with the driver
\* returning 1.
C17_StepsInOrderAbortOnFailure ==
  dpc # "off" =>
    /\ \A i \in 1..(Len(dlog) - 1) : StepRank(dlog[i].step) < StepRank(dlog[i + 1].step)
    /\ \A i \in 1..Len(dlog) :
         ~dlog[i].ok => (i = Len(dlog) /\ ret = 1)

\* The scratch directory was created by this run.
WorkspaceCreated == Len(dlog) >= 1 /\ dlog[1].step = "mkdir" /\ dlog[1].ok

\* C18: after the scratch directory was created, a driver that has returned
\* has tried to remove it exactly once when Keep is off and never when Keep
\* is on, and the status it returned is 1 exactly when a step returned 1,
\* whatever the removal did.
C18_CleanupOnEveryReturn ==
  (dpc \in {"returned", "exited"} /\ WorkspaceCreated) =>
    /\ removeTries = (IF dp.Keep THEN 0 ELSE 1)
    /\ ret = (IF dlog[Len(dlog)].step = "run" /\ dlog[Len(dlog)].ok THEN 0 ELSE 1)

\* ---- claims about the prelude's functions
\* The value the documentation gives Field(n) on fields.
FieldRef(fields, n) ==
  CASE n = 0 -> Join(fields, OFS)
    [] n >= 1 /\ n <= Len(fields) -> fields[n]
    [] n <= -1 /\ n >= -Len(fields) -> fields[Len(fields) + n + 1]
    [] OTHER -> <<>>
FieldInRange(fields, n) == n = 0 \/ (n >= -Len(fields) /\ n <= Len(fields))

\* C15: Field(n) returns the joined fields for 0, the n-th field for
\* 1..len, the field at len+n+1 for -len..-1 and the empty string otherwise;
\* it does not end the program, and it writes a diagnostic only when n is out
\* of range and Warnings is on.
C15_FieldReference ==
  (ppc = "called" /\ call.fn = "Field") =>
    /\ call.ret = FieldRef(Fields, call.n)
    /\ pexit = -1
    /\ warned > 0 => (~FieldInRange(Fields, call.n) /\ Warnings)

C15_Witness ==
  /\ ppc = "called" /\ call.fn = "Field"
  /\ Fields = << <<"a">>, <<"b", "c">> >>
  /\ call.n = -1
  /\ call.ret = <<"b", "c">>

C15_WitnessOutOfRange ==
  /\ ppc = "called" /\ call.fn = "Field"
  /\ Fields = <<>> /\ call.n = 1 /\ Warnings
  /\ call.ret = <<>> /\ warned = 1

RECURSIVE StarsReplaced(_, _)
\* The pattern with every "*" replaced by the name.
StarsReplaced(ext, orig) ==
  IF ext = <<>> THEN <<>>
  ELSE (IF Head(ext) = STAR THEN orig ELSE <<Head(ext)>>) \o StarsReplaced(Tail(ext), orig)

\* C16: BackupName returns the name followed by the pattern when the pattern
\* has no "*", and the pattern with every "*" replaced by the name otherwise.
C16_BackupNameReference ==
  (ppc = "called" /\ call.fn = "BackupName") =>
    call.ret = (IF \E k \in 1..Len(call.ext) : call.ext[k] = STAR
                THEN StarsReplaced(call.ext, call.orig)
                ELSE call.orig \o call.ext)

C16_Witness ==
  /\ ppc = "called" /\ call.fn = "BackupName"
  /\ call.orig = <<"f">>
  /\ call.ext = <<"o", "r", "i", "g", "_", STAR>>
  /\ call.ret = <<"o", "r", "i", "g", "_", "f">>

\* sep occurs in s at index i.
OccursAt(s, sep, i) ==
  /\ i + Len(sep) - 1 <= Len(s)
  /\ \A k \in 1..Len(sep) : s[i + k - 1] = sep[k]
RECURSIVE CountFrom(_, _, _)
\* The non-overlapping occurrences of a non-empty sep in s from index i on.
CountFrom(s, sep, i) ==
  IF i > Len(s) THEN 0
  ELSE IF OccursAt(s, sep, i) THEN 1 + CountFrom(s, sep, i + Len(sep))
  ELSE CountFrom(s, sep, i + 1)
\* The non-overlapping occurrences of sep in s; the empty string occurs
\* before every character and at the end.
Occurrences(s, sep) == IF sep = <<>> THEN Len(s) + 1 ELSE CountFrom(s, sep, 1)
\* The maximal runs of characters of s that satisfy Test.
Runs(s, Test(_)) ==
  Cardinality({i \in 1..Len(s) : Test(s[i]) /\ (i = 1 \/ ~Test(s[i - 1]))})
RegexpForm(sep) == Len(sep) > 1 /\ sep[1] = SLASH /\ sep[Len(sep)] = SLASH
SplitCalled == ppc \in {"called", "died"} /\ call.fn = "GSplit"

\* A single space: the fields are the maximal runs of non-whitespace.
SplitOnWhitespace ==
  LET NonSpace(c) == ~IsSpace(c) IN
  (SplitCalled /\ call.sep = <<SP>>) =>
    /\ ppc = "called"
    /\ \A k \in 1..Len(call.ret) :
         call.ret[k] # <<>> /\ \A i \in 1..Len(call.ret[k]) : NonSpace(call.ret[k][i])
    /\ Len(call.ret) = Runs(call.input, NonSpace)
    /\ Flatten(call.ret) = SelectSeq(call.input, NonSpace)

\* /pat/: the text between the slashes is the expression.
SplitOnRegexp ==
  LET pat == SubSeq(call.sep, 2, Len(call.sep) - 1)
      IsComma(c) == c = ","
      NoComma(c) == c # ","
  IN
  (SplitCalled /\ RegexpForm(call.sep)) =>
    CASE pat = <<"(">> -> ppc = "died" /\ pexit = 1
      [] pat = <<>> ->
           ppc = "called" /\ call.ret = [k \in 1..Len(call.input) |-> <<call.input[k]>>]
      [] pat = <<",">> ->
           /\ ppc = "called"
           /\ Join(call.ret, <<",">>) = call.input
           /\ Len(call.ret) = Occurrences(call.input, <<",">>) + 1
      [] pat = <<",", "+">> ->
           /\ ppc = "called"
           /\ Len(call.ret) = Runs(call.input, IsComma) + 1
           /\ Flatten(call.ret) = SelectSeq(call.input, NoComma)
           /\ \A k \in 1..Len(call.ret) : ~Contains(call.ret[k], ",")

\* A literal delimiter: one more element than occurrences, and the join is
\* the input.
SplitOnLiteral ==
  /\ ppc = "called"
  /\ Len(call.ret) = Occurrences(call.input, call.sep) + 1
  /\ Join(call.ret, call.sep) = call.input
OtherSeparator == SplitCalled /\ call.sep # <<SP>> /\ ~RegexpForm(call.sep)

\* C25 as stated: a single space splits on whitespace with no empty field,
\* /pat/ splits on the expression, and every other separator is a literal
\* delimiter whose result has one more element than the delimiter has
\* non-overlapping occurrences and joins back to the input.
C25_GSplitModes ==
  /\ SplitOnWhitespace
  /\ SplitOnRegexp
  /\ OtherSeparator => SplitOnLiteral

\* C25, amended: as above for every other separator that is not empty; the
\* empty separator gives one element per character of the input.
C25_GSplitModesNonEmpty ==
  /\ SplitOnWhitespace
  /\ SplitOnRegexp
  /\ (OtherSeparator /\ call.sep # <<>>) => SplitOnLiteral
  /\ (OtherSeparator /\ call.sep = <<>>) =>
       /\ ppc = "called"
       /\ call.ret = [k \in 1..Len(call.input) |-> <<call.input[k]>>]

C25_Witness ==
  /\ ppc = "called" /\ call.fn = "GSplit"
  /\ call.sep = <<SLASH>>
  /\ call.input = <<"a", SLASH, SLASH>>
  /\ call.ret = << <<"a">>, <<>>, <<>> >>

====
